---------------------------- MODULE Spec2Model ----------------------------
(***************************************************************************)
(* Seismic wave field simulator (RNG, SpectralNoise, FaultSystem,          *)
(* WaveSimulation) as a state machine.                                     *)
(*                                                                         *)
(* Number representation.  The program computes in IEEE doubles and stores *)
(* grids in Float32Arrays.  Here every real quantity v is carried as the   *)
(* integer floor(v * Scale), Scale = 1000 ("milli" units): grid cells,     *)
(* coordinates, magnitudes, wave speed, damping, angles (radians), time    *)
(* (seconds).  Products are floored back to milli units by MulS.  The      *)
(* transcendental library calls (Math.cos, Math.sin, Math.exp, Math.pow,   *)
(* Math.sqrt) are computed by integer approximations defined below; they   *)
(* are exact at the points the program relies on (cos 0 = 1, cos pi = -1,  *)
(* exp 0 = 1, pow(0, 0.3) = 0) and keep sign and monotonicity.  Floating   *)
(* point rounding itself is not represented.  The RNG state is the exact   *)
(* 31-bit integer of the program.                                          *)
(***************************************************************************)
EXTENDS Integers, Sequences, FiniteSets, TLC

\* ------------------------------------------------------------------ bounds
\* Grid size of the simulation instance (the page uses 200 x 120).
GRID_WIDTH == 6
GRID_HEIGHT == 6
\* Number of method calls made on the instance after construction.
MaxCalls == 3

\* --------------------------------------------------------------- constants
Scale == 10 ^ 3
\* const DT = 0.016, in milli units
DT == 16
\* const DX = 1 (a plain factor, not scaled)
DX == 1
\* Math.PI in milli units
PI == 3142
\* RNG: modulus 2^31 - 1, multiplier 16807
Modulus == 2147483647
Multiplier == 16807
\* octaves = 5 (default argument of fbm)
Octaves == 5
\* new FaultSystem(3, ...) in the constructor
InitialFaultCount == 3
\* new RNG(9001), new SpectralNoise(12345)
SimSeed == 9001
NoiseSeed == 12345

\* -------------------------------------------------------------- arithmetic
Max(a, b) == IF a >= b THEN a ELSE b
Min(a, b) == IF a <= b THEN a ELSE b
Abs(a) == IF a < 0 THEN -a ELSE a

\* The single element of a one-element set.
Only(S) == CHOOSE e \in S : TRUE

\* F applied to the value of v: v is evaluated once, before F's body, however
\* often the body uses it (TLC evaluates operator arguments and LET
\* definitions lazily and may evaluate them once per use).  It sequences the
\* statements of a method: Let(first statement's result, LAMBDA t : rest).
Let(v, F(_)) == Only({F(t) : t \in {v}})

\* floor(a * b / Scale): the product of two milli-unit numbers, in milli
\* units, computed without leaving 32-bit range (a = q*Scale + r).
MulS(a, b) == (a \div Scale) * b + ((a % Scale) * b) \div Scale

\* Math.floor of a milli-unit number, as a plain integer.
Floor(a) == a \div Scale

\* Math.sqrt on integers: the largest r with r*r <= n (bisection on [lo,hi)).
RECURSIVE SqrtIn(_, _, _)
SqrtIn(n, lo, hi) ==
  IF hi - lo <= 1 THEN lo
  ELSE LET mid == (lo + hi) \div 2
       IN IF mid * mid <= n THEN SqrtIn(n, mid, hi) ELSE SqrtIn(n, lo, mid)
Sqrt(n) == SqrtIn(n, 0, 46341)

\* cos(pi * t) for t in milli units, 0 <= t <= 500 (Bhaskara's rational
\* approximation (1 - 4t^2)/(1 + t^2); exact at t = 0 and t = 1/2).
CosQuarter(t) == ((1000000 - 4 * t * t) * 1000) \div (1000000 + t * t)

\* cos(pi * t) for every t in milli units (period 2, even, antisymmetric
\* about 1/2).
CosPi(t) ==
  LET m == t % 2000
      e == IF m > 1000 THEN 2000 - m ELSE m
  IN IF e <= 500 THEN CosQuarter(e) ELSE -CosQuarter(1000 - e)

\* Math.cos / Math.sin of an angle in milli-radians.
Cos(angle) == CosPi((angle * 1000) \div PI)
Sin(angle) == CosPi((angle * 1000) \div PI - 500)

\* Math.exp(-z) for z >= 0 in milli units: 1 / (1 + z + z^2/2 + z^3/6).
ExpNeg(z) ==
  LET z2 == MulS(z, z)
      z3 == MulS(z2, z)
  IN (Scale * Scale) \div (Scale + z + z2 \div 2 + z3 \div 6)

\* y^10 in milli units.
Pow10(y) ==
  LET y2 == MulS(y, y)
      y4 == MulS(y2, y2)
      y8 == MulS(y4, y4)
  IN MulS(y8, y2)

\* The least y in [lo, hi] with y^10 >= v (bisection; Pow10 is monotone).
RECURSIVE Root10In(_, _, _)
Root10In(v, lo, hi) ==
  IF lo >= hi THEN lo
  ELSE LET mid == (lo + hi) \div 2
       IN IF Pow10(mid) >= v THEN Root10In(v, lo, mid)
          ELSE Root10In(v, mid + 1, hi)

\* Math.pow(e, 0.3) for 0 <= e <= 1 in milli units: the tenth root of e^3.
Pow03(e) == Root10In(MulS(MulS(e, e), e), 0, Scale)

\* ---------------------------------------------------------------------- RNG
\* this.seed * 16807 as the exact integer hi * 2^16 + lo, written <<hi, lo>>
\* (the program computes it in a double; the model's integers are 32 bits
\* wide, so the product is kept in two limbs).
product(seed) ==
  LET H == (seed \div 65536) * Multiplier
      L == (seed % 65536) * Multiplier
  IN <<H + L \div 65536, L % 65536>>

\* p % 2147483647 for an exact p = <<hi, lo>>: p = a * 2^31 + b and 2^31 is
\* congruent to 1, so p is congruent to a + b.
modulo(p) ==
  LET a == p[1] \div 32768
      b == (p[1] % 32768) * 65536 + p[2]
  IN IF b >= Modulus - a THEN b - (Modulus - a) ELSE a + b

\* The state update without the correction of a negative intermediate.
LehmerNoWrap(seed) ==
  LET q == Modulus \div Multiplier
      r == Modulus % Multiplier
  IN Multiplier * (seed % q) - r * (seed \div q)

\* seed * 16807 % 2147483647, by Schrage's decomposition so that no
\* intermediate value leaves 32-bit range (m = a*q + r, r < q).
Lehmer(seed) ==
  LET q == Modulus \div Multiplier
      r == Modulus % Multiplier
      t == Multiplier * (seed % q) - r * (seed \div q)
  IN IF t < 0 THEN t + Modulus ELSE t

\* The value RNG.next() returns for the (already advanced) state seed:
\* (seed - 1) / 2147483646, in milli units (a value in 0 .. 999).
unit(seed) == (seed - 1) \div 2147484

\* next() that returns a value but does not store the new state.
nextStale(seed) == [seed |-> seed, value |-> unit(Lehmer(seed))]

\* RNG.next(): the new state and the value returned.
next(seed) ==
  LET s == Lehmer(seed) IN [seed |-> s, value |-> unit(s)]

\* RNG.nextRange(min, max) = min + (max - min) * next()
nextRange(seed, min, max) ==
  LET n == next(seed)
  IN [seed |-> n.seed, value |-> min + MulS(max - min, n.value)]

\* RNG.nextRange(min, min + 1) for an integer min with 2^30 <= min < 2^31 - 1,
\* as binary64 arithmetic computes it.  (max - min) * next() is next() itself;
\* doubles in [2^30, 2^31) are 2^-22 apart, so min + next() is min + k / 2^22
\* with k the integer nearest to u * 2^22, u = (seed - 1) / 2147483646 (a tie
\* cannot occur and the rounding of u itself to 53 bits cannot move k).
\* With n = seed - 1 = a * m + b, m = 2^30 - 1:  u * 2^22 = a * 2^21 +
\* b / 512 + b / (512 * m), and the last term is below 1/512.  The value is
\* whole + frac / 2^22 with 0 <= frac < 2^22.
nextRangeUnit(seed, min) ==
  LET s == next(seed).seed
      n == s - 1
      m == 2 ^ 30 - 1
      a == n \div m
      b == n % m
      k == a * 2 ^ 21 + b \div 512 + (IF b % 512 >= 256 THEN 1 ELSE 0)
  IN [seed |-> s, whole |-> min + k \div 2 ^ 22, frac |-> k % 2 ^ 22]

\* ------------------------------------------------------------ SpectralNoise
\* A noise instance is [seed |-> state of its RNG, gradients |-> the Map].
\* The Map is a function from lattice keys <<ix, iy>> to <<cos, sin>>.

\* gradient(ix, iy) with the memoisation removed: draws on every call.
gradientNoCache(noise, ix, iy) ==
  LET a == nextRange(noise.seed, 0, 2 * PI)
      g == <<Cos(a.value), Sin(a.value)>>
      key == <<ix, iy>>
  IN [noise |-> [seed |-> a.seed,
                 gradients |-> [k \in DOMAIN noise.gradients \cup {key} |->
                                  IF k = key THEN g ELSE noise.gradients[k]]],
      value |-> g]

\* SpectralNoise.gradient(ix, iy): the vector, and the instance afterwards.
gradient(noise, ix, iy) ==
  LET key == <<ix, iy>>
  IN IF key \notin DOMAIN noise.gradients
     THEN LET a == nextRange(noise.seed, 0, 2 * PI)
              g == <<Cos(a.value), Sin(a.value)>>
          IN [noise |-> [seed |-> a.seed,
                         gradients |-> [k \in DOMAIN noise.gradients \cup {key} |->
                                          IF k = key THEN g ELSE noise.gradients[k]]],
              value |-> g]
     ELSE [noise |-> noise, value |-> noise.gradients[key]]

\* SpectralNoise.dot(ix, iy, x, y)
dot(noise, ix, iy, x, y) ==
  LET dx == x - ix * Scale
      dy == y - iy * Scale
  IN Let(gradient(noise, ix, iy), LAMBDA g :
       [noise |-> g.noise, value |-> MulS(g.value[1], dx) + MulS(g.value[2], dy)])

\* SpectralNoise.fade(t) = ((6t - 15)t + 10) t t t
fade(t) == MulS(MulS(MulS(MulS(6 * t - 15 * Scale, t) + 10 * Scale, t), t), t)

\* SpectralNoise.perlin(x, y)
perlin(noise, x, y) ==
  LET x0 == Floor(x)
      x1 == x0 + 1
      y0 == Floor(y)
      y1 == y0 + 1
      sx == fade(x - x0 * Scale)
      sy == fade(y - y0 * Scale)
  IN Let(dot(noise, x0, y0, x, y), LAMBDA n0 :
     Let(dot(n0.noise, x1, y0, x, y), LAMBDA n1 :
     Let(n0.value + MulS(sx, n1.value - n0.value), LAMBDA ix0 :
     Let(dot(n1.noise, x0, y1, x, y), LAMBDA n2 :
     Let(dot(n2.noise, x1, y1, x, y), LAMBDA n3 :
     Let(n2.value + MulS(sx, n3.value - n2.value), LAMBDA ix1 :
       [noise |-> n3.noise, value |-> ix0 + MulS(sy, ix1 - ix0)]))))))

\* The loop of fbm from octave i on.
RECURSIVE fbmFrom(_, _, _, _, _, _, _)
fbmFrom(noise, x, y, i, value, amplitude, frequency) ==
  IF i >= Octaves THEN [noise |-> noise, value |-> value]
  ELSE Let(perlin(noise, MulS(x, frequency), MulS(y, frequency)), LAMBDA p :
         fbmFrom(p.noise, x, y, i + 1, value + MulS(amplitude, p.value),
                 MulS(amplitude, 550), frequency * 2))

\* SpectralNoise.fbm(x, y): value = 0, amplitude = 0.5, frequency = 0.9
fbm(noise, x, y) == fbmFrom(noise, x, y, 0, 0, 500, 900)

\* -------------------------------------------------------------- FaultSystem
\* A fault whose strength is drawn from (-1.3, -0.6).
newFaultSigned(seed) ==
  LET cx == nextRange(seed, 200, 800)
      cy == nextRange(cx.seed, 200, 800)
      angle == nextRange(cy.seed, 0, PI)
      strength == nextRange(angle.seed, -1300, -600)
  IN [seed |-> strength.seed,
      fault |-> [cx |-> cx.value * GRID_WIDTH, cy |-> cy.value * GRID_HEIGHT,
                 angle |-> angle.value, strength |-> strength.value]]

\* The body of the Array.from callback: one fault, four draws in the order
\* cx, cy, angle, strength.
newFault(seed) ==
  LET cx == nextRange(seed, 200, 800)
      cy == nextRange(cx.seed, 200, 800)
      angle == nextRange(cy.seed, 0, PI)
      strength == nextRange(angle.seed, 600, 1300)
  IN [seed |-> strength.seed,
      fault |-> [cx |-> cx.value * GRID_WIDTH, cy |-> cy.value * GRID_HEIGHT,
                 angle |-> angle.value, strength |-> strength.value]]

RECURSIVE faultsFrom(_, _, _)
faultsFrom(seed, count, acc) ==
  IF Len(acc) >= count THEN [seed |-> seed, faults |-> acc]
  ELSE Let(newFault(seed), LAMBDA f :
         faultsFrom(f.seed, count, Append(acc, f.fault)))

\* setFaults that tops the existing list up to count instead of replacing it.
setFaultsKeeping(seed, faults, count) == faultsFrom(seed, count, faults)

\* setFaults that restarts the shared RNG before sampling.
setFaultsReseed(seed, faults, count) == faultsFrom(SimSeed, count, <<>>)

\* FaultSystem.setFaults(count): the new list and the shared RNG afterwards.
setFaults(seed, faults, count) == faultsFrom(seed, count, <<>>)

\* One term of energyBoost.
faultTerm(fault, x, y) ==
  LET dx == x - fault.cx
      dy == y - fault.cy
      dist == Abs(MulS(Cos(fault.angle), dx) + MulS(Sin(fault.angle), dy))
  IN MulS(fault.strength, ExpNeg(MulS(dist, 20)))

RECURSIVE energyBoostFrom(_, _, _, _)
energyBoostFrom(faults, k, x, y) ==
  IF k > Len(faults) THEN 0
  ELSE faultTerm(faults[k], x, y) + energyBoostFrom(faults, k + 1, x, y)

\* FaultSystem.energyBoost(x, y), x and y in milli units.
energyBoost(faults, x, y) == energyBoostFrom(faults, 1, x, y)

\* ----------------------------------------------------------- WaveSimulation
\* A simulation object is a record: bufs (the three Float32Arrays allocated
\* for the displacement field, by allocation order), uPrev/uCurrent/uNext
\* (which of the three each field of the object refers to), velocity,
\* terrain, boundaryMask, rngSeed (this.rng), noise (this.noise), faults
\* (this.faultSystem.faults), time, lastRupture (<<>> for null, <<t>> else).
size == GRID_WIDTH * GRID_HEIGHT
Cells == 0 .. size - 1
Zeros == [c \in Cells |-> 0]

\* WaveSimulation.index(x, y)
index(x, y) == y * GRID_WIDTH + x

\* Assignment to a typed-array element: an index outside the array is ignored.
store(arr, idx, v) == IF idx \in DOMAIN arr THEN [arr EXCEPT ![idx] = v] ELSE arr

\* ---- resetTerrain
\* The loop body with nx = x / (width - 1) and ny = y / (height - 1), which
\* makes the last column and row reach 1.
resetCellSymmetric(s, x, y) ==
  LET idx == index(x, y)
      nx == (x * Scale) \div (GRID_WIDTH - 1)
      ny == (y * Scale) \div (GRID_HEIGHT - 1)
      ridge == ExpNeg(20 * MulS(nx - 500, nx - 500))
      edge == Min(Min(nx, ny), Min(Scale - nx, Scale - ny))
  IN Let(fbm(s.noise, nx * 6, ny * 6), LAMBDA f :
     Let(MulS(f.value, 400), LAMBDA height :
       [s EXCEPT !.noise = f.noise,
                 !.terrain = store(@, idx, height + MulS(ridge, 200)),
                 !.boundaryMask = store(@, idx, Pow03(edge)),
                 !.bufs = [b \in DOMAIN @ |-> store(@[b], idx, 0)],
                 !.velocity = store(@, idx, 0)]))

\* The body of resetTerrain's inner loop for cell (x, y).
resetCell(s, x, y) ==
  LET idx == index(x, y)
      nx == (x * Scale) \div GRID_WIDTH
      ny == (y * Scale) \div GRID_HEIGHT
      ridge == ExpNeg(20 * MulS(nx - 500, nx - 500))
      edge == Min(Min(nx, ny), Min(Scale - nx, Scale - ny))
  IN Let(fbm(s.noise, nx * 6, ny * 6), LAMBDA f :
     Let(MulS(f.value, 400), LAMBDA height :
       [s EXCEPT !.noise = f.noise,
                 !.terrain = store(@, idx, height + MulS(ridge, 200)),
                 !.boundaryMask = store(@, idx, Pow03(edge)),
                 !.bufs = [b \in DOMAIN @ |-> store(@[b], idx, 0)],
                 !.velocity = store(@, idx, 0)]))

\* for (let x = ...; x < this.width; x++) of resetTerrain, in row y.
RECURSIVE resetRow(_, _, _)
resetRow(s, x, y) ==
  IF x >= GRID_WIDTH THEN s
  ELSE Let(resetCell(s, x, y), LAMBDA t : resetRow(t, x + 1, y))

\* for (let y = ...; y < this.height; y++) of resetTerrain.
RECURSIVE resetLoop(_, _)
resetLoop(s, y) ==
  IF y >= GRID_HEIGHT THEN s
  ELSE Let(resetRow(s, 0, y), LAMBDA t : resetLoop(t, y + 1))

\* resetTerrain that sets the clock back but keeps the rupture timestamp.
resetTerrainKeepingRupture(s) ==
  Let(resetLoop(s, 0), LAMBDA t : [t EXCEPT !.time = 0])

\* WaveSimulation.resetTerrain()
resetTerrain(s) ==
  Let(resetLoop(s, 0), LAMBDA t : [t EXCEPT !.time = 0, !.lastRupture = <<>>])

\* ---- setFaultCount
\* setFaultCount that also clears the rupture timestamp.
setFaultCountClearing(s, count) ==
  Let(setFaults(s.rngSeed, s.faults, count), LAMBDA r :
    [s EXCEPT !.rngSeed = r.seed, !.faults = r.faults, !.lastRupture = <<>>])

\* WaveSimulation.setFaultCount(count)
setFaultCount(s, count) ==
  Let(setFaults(s.rngSeed, s.faults, count), LAMBDA r :
    [s EXCEPT !.rngSeed = r.seed, !.faults = r.faults])

\* ---- disturb
\* The radius rounded down to a whole number of cells.
radiusOfWhole(magnitude) == Max(8 * Scale, Floor(MulS(magnitude, 1200)) * Scale)

\* const radius = Math.max(8, magnitude * 1.2)
radiusOf(magnitude) == Max(8 * Scale, MulS(magnitude, 1200))

\* The values the loop variables i and j of disturb take for a radius: they
\* start at -radius and go up by one while they are <= radius.
Offsets(radius) == {k * Scale - radius : k \in 0 .. (2 * radius) \div Scale}

\* The test with a dead border of one cell on every side.
skippedSymmetric(px, py) ==
  px <= 0 \/ py <= 0 \/ px >= GRID_WIDTH - 1 \/ py >= GRID_HEIGHT - 1

\* The test of line 176: the candidate cell is skipped.
skipped(px, py) ==
  px <= 1 \/ py <= 1 \/ px >= GRID_WIDTH - 1 \/ py >= GRID_HEIGHT - 1

\* uCurrent[idx] = energy instead of +=.
injectOverwrite(old, energy) == energy

\* this.uCurrent[idx] += energy
inject(old, energy) == old + energy

\* const falloff = Math.cos((dist / radius) * Math.PI) * 0.5 + 0.5
falloffOf(dist, radius) ==
  MulS(CosPi((dist * Scale) \div radius), 500) + 500

\* The loop body that injects the energy into uPrev as well as uCurrent.
disturbCellBoth(s, x, y, magnitude, radius, i, j) ==
  LET px == Floor(x + i)
      py == Floor(y + j)
      idx == index(px, py)
  IN IF skipped(px, py) THEN s
     ELSE IF i * i + j * j > radius * radius THEN s
     ELSE LET dist == Sqrt(i * i + j * j)
              falloff == falloffOf(dist, radius)
          IN Let(MulS(MulS(magnitude, falloff),
                      Scale + energyBoost(s.faults, px * Scale, py * Scale)),
                 LAMBDA energy :
                   [s EXCEPT !.bufs[s.uCurrent] = store(@, idx, inject(@[idx], energy)),
                             !.bufs[s.uPrev] = store(@, idx, inject(@[idx], energy))])

\* The body of disturb's inner loop for the offsets (i, j).
disturbCell(s, x, y, magnitude, radius, i, j) ==
  LET px == Floor(x + i)
      py == Floor(y + j)
      idx == index(px, py)
  IN IF skipped(px, py) THEN s
     ELSE IF i * i + j * j > radius * radius THEN s
     ELSE LET dist == Sqrt(i * i + j * j)
              falloff == falloffOf(dist, radius)
          IN Let(MulS(MulS(magnitude, falloff),
                      Scale + energyBoost(s.faults, px * Scale, py * Scale)),
                 LAMBDA energy :
                   [s EXCEPT !.bufs[s.uCurrent] = store(@, idx, inject(@[idx], energy))])

\* for (let i = -radius; i <= radius; i++), for the outer offset j.  An
\* iteration that ends at the continue of line 177 leaves the object as it
\* is, so the loop goes on with the same object.
RECURSIVE disturbRow(_, _, _, _, _, _, _)
disturbRow(s, x, y, magnitude, radius, i, j) ==
  IF i > radius THEN s
  ELSE IF skipped(Floor(x + i), Floor(y + j))
       THEN disturbRow(s, x, y, magnitude, radius, i + Scale, j)
       ELSE Let(disturbCell(s, x, y, magnitude, radius, i, j), LAMBDA t :
              disturbRow(t, x, y, magnitude, radius, i + Scale, j))

\* for (let j = -radius; j <= radius; j++)
RECURSIVE disturbLoop(_, _, _, _, _, _)
disturbLoop(s, x, y, magnitude, radius, j) ==
  IF j > radius THEN s
  ELSE Let(disturbRow(s, x, y, magnitude, radius, -radius, j), LAMBDA t :
         disturbLoop(t, x, y, magnitude, radius, j + Scale))

\* disturb that returns early, before the timestamp, when nothing is injected.
disturbGuarded(s, x, y, magnitude) ==
  Let(radiusOf(magnitude), LAMBDA radius :
  Let(disturbLoop(s, x, y, magnitude, radius, -radius), LAMBDA t :
    IF t.bufs = s.bufs THEN s ELSE [t EXCEPT !.lastRupture = <<s.time>>]))

\* disturb that injects into the scratch buffer uNext.
disturbIntoNext(s, x, y, magnitude) ==
  Let(radiusOf(magnitude), LAMBDA radius :
  Let(disturbLoop([s EXCEPT !.uCurrent = s.uNext, !.uNext = s.uCurrent],
                  x, y, magnitude, radius, -radius), LAMBDA t :
    [t EXCEPT !.uCurrent = s.uCurrent, !.uNext = s.uNext,
              !.lastRupture = <<s.time>>]))

\* WaveSimulation.disturb(x, y, magnitude)
disturb(s, x, y, magnitude) ==
  Let(radiusOf(magnitude), LAMBDA radius :
  Let(disturbLoop(s, x, y, magnitude, radius, -radius), LAMBDA t :
    [t EXCEPT !.lastRupture = <<s.time>>]))

\* ---- step
\* The sweep with the last column included: x < this.width.
xEndInclusive == GRID_WIDTH

\* The exclusive upper limits of the sweep: x < this.width - 1 and
\* y < this.height - 1.
xEnd == GRID_WIDTH - 1
yEnd == GRID_HEIGHT - 1

\* const laplacian = u[idx-1] + u[idx+1] + u[idx-width] + u[idx+width] - 4 u[idx]
laplacianAt(u, idx) ==
  u[idx - 1] + u[idx + 1] + u[idx - GRID_WIDTH] + u[idx + GRID_WIDTH] - 4 * u[idx]

\* The acceleration with the factor c2 left out.
accelerationNoSpeed(c2, laplacian, terrainStiffness) ==
  ((MulS(laplacian, terrainStiffness) * DT * DT) \div (Scale * Scale)) \div (DX * DX)

\* const acceleration = (c2 * DT * DT * laplacian * terrainStiffness) / (DX * DX).
\* The factors are multiplied in the order laplacian, terrainStiffness, c2,
\* DT, DT so that the small factor DT*DT (2.56e-4) is applied last and the
\* integer product keeps its precision; DT * DT is in units of 1e-6.
accelerationOf(c2, laplacian, terrainStiffness) ==
  ((MulS(MulS(laplacian, terrainStiffness), c2) * DT * DT) \div (Scale * Scale))
    \div (DX * DX)

\* const nextValue = dampingFactor * (2 * uCurrent[idx] - uPrev[idx])
\*                   + acceleration * boundary
nextValue(dampingFactor, cur, prev, acceleration, boundary) ==
  MulS(dampingFactor, 2 * cur - prev) + MulS(acceleration, boundary)

\* The loop body of a step that also wears the terrain down under the wave.
stepCellEroding(st, x, y, c2, dampingFactor) ==
  LET s == st.sim
      idx == index(x, y)
      terrainStiffness == Scale + MulS(s.terrain[idx], 600)
      boundary == Max(s.boundaryMask[idx], 200)
  IN Let(laplacianAt(s.bufs[s.uCurrent], idx), LAMBDA laplacian :
     Let(accelerationOf(c2, laplacian, terrainStiffness), LAMBDA acceleration :
     Let(nextValue(dampingFactor, s.bufs[s.uCurrent][idx], s.bufs[s.uPrev][idx],
                   acceleration, boundary), LAMBDA nv :
       [sim |-> [s EXCEPT !.bufs[s.uNext] = store(@, idx, nv),
                          !.velocity = store(@, idx,
                                             ((nv - s.bufs[s.uPrev][idx]) * Scale)
                                               \div (2 * DT)),
                          !.terrain = store(@, idx, @[idx] - 1)],
        peak |-> IF Abs(nv) > st.peak THEN Abs(nv) ELSE st.peak,
        energy |-> st.energy + MulS(nv, nv) \div 2])))

\* The loop body of an in-place (Gauss-Seidel) sweep: the left and the upper
\* neighbour are read from uNext, where this sweep has already written them.
stepCellGaussSeidel(st, x, y, c2, dampingFactor) ==
  LET s == st.sim
      idx == index(x, y)
      u == s.bufs[s.uCurrent]
      w == s.bufs[s.uNext]
      terrainStiffness == Scale + MulS(s.terrain[idx], 600)
      boundary == Max(s.boundaryMask[idx], 200)
  IN Let(w[idx - 1] + u[idx + 1] + w[idx - GRID_WIDTH] + u[idx + GRID_WIDTH] - 4 * u[idx],
         LAMBDA laplacian :
     Let(accelerationOf(c2, laplacian, terrainStiffness), LAMBDA acceleration :
     Let(nextValue(dampingFactor, u[idx], s.bufs[s.uPrev][idx],
                   acceleration, boundary), LAMBDA nv :
       [sim |-> [s EXCEPT !.bufs[s.uNext] = store(@, idx, nv),
                          !.velocity = store(@, idx,
                                             ((nv - s.bufs[s.uPrev][idx]) * Scale)
                                               \div (2 * DT))],
        peak |-> IF Abs(nv) > st.peak THEN Abs(nv) ELSE st.peak,
        energy |-> st.energy + MulS(nv, nv) \div 2])))

\* The body of step's inner loop for cell (x, y); st carries the object and
\* the locals peak and energy.
stepCell(st, x, y, c2, dampingFactor) ==
  LET s == st.sim
      idx == index(x, y)
      terrainStiffness == Scale + MulS(s.terrain[idx], 600)
      boundary == Max(s.boundaryMask[idx], 200)
  IN Let(laplacianAt(s.bufs[s.uCurrent], idx), LAMBDA laplacian :
     Let(accelerationOf(c2, laplacian, terrainStiffness), LAMBDA acceleration :
     Let(nextValue(dampingFactor, s.bufs[s.uCurrent][idx], s.bufs[s.uPrev][idx],
                   acceleration, boundary), LAMBDA nv :
       [sim |-> [s EXCEPT !.bufs[s.uNext] = store(@, idx, nv),
                          !.velocity = store(@, idx,
                                             ((nv - s.bufs[s.uPrev][idx]) * Scale)
                                               \div (2 * DT))],
        peak |-> IF Abs(nv) > st.peak THEN Abs(nv) ELSE st.peak,
        energy |-> st.energy + MulS(nv, nv) \div 2])))

\* The row loop that leaves out the cells next to the border.
RECURSIVE stepRowInner(_, _, _, _, _)
stepRowInner(st, x, y, c2, dampingFactor) ==
  IF x >= xEnd THEN st
  ELSE IF x <= 1 \/ y <= 1 \/ x >= GRID_WIDTH - 2 \/ y >= GRID_HEIGHT - 2
       THEN stepRowInner(st, x + 1, y, c2, dampingFactor)
       ELSE Let(stepCell(st, x, y, c2, dampingFactor), LAMBDA t :
              stepRowInner(t, x + 1, y, c2, dampingFactor))

\* for (let x = 1; x < this.width - 1; x++) of step, in row y.
RECURSIVE stepRow(_, _, _, _, _)
stepRow(st, x, y, c2, dampingFactor) ==
  IF x >= xEnd THEN st
  ELSE Let(stepCell(st, x, y, c2, dampingFactor), LAMBDA t :
         stepRow(t, x + 1, y, c2, dampingFactor))

\* for (let y = 1; y < this.height - 1; y++) of step.
RECURSIVE stepLoop(_, _, _, _)
stepLoop(st, y, c2, dampingFactor) ==
  IF y >= yEnd THEN st
  ELSE Let(stepRow(st, 1, y, c2, dampingFactor), LAMBDA t :
         stepLoop(t, y + 1, c2, dampingFactor))

\* Copies cell by cell instead of exchanging the references.
rotateByCopy(s) ==
  [s EXCEPT !.bufs = [b \in DOMAIN @ |->
                        IF b = s.uPrev THEN @[s.uCurrent]
                        ELSE IF b = s.uCurrent THEN @[s.uNext] ELSE @[b]]]

\* The rotation without the temporary: uNext is assigned the new uPrev.
rotateNoTemp(s) == [s EXCEPT !.uPrev = s.uCurrent, !.uCurrent = s.uNext, !.uNext = s.uCurrent]

\* const temp = uPrev; uPrev = uCurrent; uCurrent = uNext; uNext = temp
rotate(s) == [s EXCEPT !.uPrev = s.uCurrent, !.uCurrent = s.uNext, !.uNext = s.uPrev]

\* this.time += DT, twice.
advanceTwice(t) == t + 2 * DT

\* this.time += DT
advance(t) == t + DT

\* step with c2 = waveSpeed * |waveSpeed|, which keeps the sign of waveSpeed.
stepSigned(s, waveSpeed, damping) ==
  Let(MulS(waveSpeed, Abs(waveSpeed)), LAMBDA c2 :
  Let(Scale - damping, LAMBDA dampingFactor :
  Let(stepLoop([sim |-> s, peak |-> 0, energy |-> 0], 1, c2, dampingFactor),
      LAMBDA st :
        [sim |-> [rotate(st.sim) EXCEPT !.time = advance(@)],
         peak |-> st.peak,
         energy |-> st.energy])))

\* WaveSimulation.step({waveSpeed, damping}): the object afterwards and the
\* value returned.  The returned energy (energy * 1e-3) is in units of 1e-6,
\* so that it is the same integer as the milli-unit sum.
step(s, waveSpeed, damping) ==
  Let(MulS(waveSpeed, waveSpeed), LAMBDA c2 :
  Let(Scale - damping, LAMBDA dampingFactor :
  Let(stepLoop([sim |-> s, peak |-> 0, energy |-> 0], 1, c2, dampingFactor),
      LAMBDA st :
        [sim |-> [rotate(st.sim) EXCEPT !.time = advance(@)],
         peak |-> st.peak,
         energy |-> st.energy])))

\* ---- constructor
\* new WaveSimulation(GRID_WIDTH, GRID_HEIGHT)
construct ==
  Let(setFaults(SimSeed, <<>>, InitialFaultCount), LAMBDA f :
     resetTerrain([bufs |-> [b \in 1 .. 3 |-> Zeros],
                   uPrev |-> 1, uCurrent |-> 2, uNext |-> 3,
                   velocity |-> Zeros, terrain |-> Zeros, boundaryMask |-> Zeros,
                   rngSeed |-> f.seed,
                   noise |-> [seed |-> NoiseSeed, gradients |-> <<>>],
                   faults |-> f.faults,
                   time |-> 0, lastRupture |-> <<>>]))

\* ------------------------------------------------------------ state machine
\* The fields of the one simulation object `sim` of the page, the value the
\* most recent step returned (<<>> before the first step), and hist: the
\* calls made on the object since construction, each with the fault list and
\* the state of the shared RNG it left behind.
VARIABLES bufs, uPrev, uCurrent, uNext, velocity, terrain, boundaryMask,
          rngSeed, noiseSeed, gradients, faults, time, lastRupture,
          result, hist

\* The classes on their own (specifications RngSpec and NoiseSpec below):
\* two RNG instances built from one seed, and one SpectralNoise instance
\* with the queries made on it.
VARIABLES rngA, rngB, spectral, queries

\* The page's event loop (specification LoopSpec below): the task that is
\* running and its position, the position inside sim.step, the animation
\* frame callbacks and the UI events that wait, and the counts of
\* renderFrame invocations and of step calls.
VARIABLES running, pc, stepPc, rafQueue, eventQueue, frames, steps

\* The BosWashMap component (specification MapSpec below): whether it is
\* mounted, its refs hasInit, mapRef, acRef and readyRef (0 stands for null;
\* maps and AbortControllers are numbered in the order of their creation),
\* the maps created (loaded, removed, the sources and layers added), the
\* controllers created (TRUE once aborted), the runs of the async loader
\* (the map and the controller each run closed over, the dataset it is at,
\* and the state of the request it awaits), and the journal of the React
\* state updates, map additions and aborts in the order they happened.
VARIABLES mounted, hasInit, mapRef, acRef, readyRef, maps, controllers,
          loaders, journal

\* The array accesses of step and disturb on grids of any size
\* (specification AccessSpec below): the size <<width, height>> the
\* simulation was constructed with, and the indices the most recent call
\* read and wrote (<<>> before the first call).
VARIABLES grid, access

simVars == <<bufs, uPrev, uCurrent, uNext, velocity, terrain, boundaryMask,
             rngSeed, noiseSeed, gradients, faults, time, lastRupture,
             result, hist>>
rngVars == <<rngA, rngB>>
noiseVars == <<spectral, queries>>
loopVars == <<running, pc, stepPc, rafQueue, eventQueue, frames, steps>>
mapVars == <<mounted, hasInit, mapRef, acRef, readyRef, maps, controllers,
             loaders, journal>>
accessVars == <<grid, access>>

vars == <<simVars, rngVars, noiseVars, loopVars, mapVars, accessVars>>

\* A specification that is about one part holds the variables of the other
\* parts at these values throughout.
NoRng == rngA = <<>> /\ rngB = <<>>
NoNoise == spectral = <<>> /\ queries = <<>>
NoLoop ==
  /\ running = <<"none">> /\ pc = "none" /\ stepPc = "idle"
  /\ rafQueue = 0 /\ eventQueue = <<>> /\ frames = 0 /\ steps = 0

NoMap ==
  /\ mounted = FALSE /\ hasInit = FALSE /\ mapRef = 0 /\ acRef = 0
  /\ readyRef = FALSE /\ maps = <<>> /\ controllers = <<>> /\ loaders = <<>>
  /\ journal = <<>>

NoAccess == grid = <<>> /\ access = <<>>

\* The object's fields, without the bookkeeping of result and hist.
fields == <<bufs, uPrev, uCurrent, uNext, velocity, terrain, boundaryMask,
            rngSeed, noiseSeed, gradients, faults, time, lastRupture>>

\* The object as a record, and the assignment of a record to the object.
sim ==
  [bufs |-> bufs, uPrev |-> uPrev, uCurrent |-> uCurrent, uNext |-> uNext,
   velocity |-> velocity, terrain |-> terrain, boundaryMask |-> boundaryMask,
   rngSeed |-> rngSeed, noise |-> [seed |-> noiseSeed, gradients |-> gradients],
   faults |-> faults, time |-> time, lastRupture |-> lastRupture]

Becomes(s) ==
  /\ bufs' = s.bufs
  /\ uPrev' = s.uPrev
  /\ uCurrent' = s.uCurrent
  /\ uNext' = s.uNext
  /\ velocity' = s.velocity
  /\ terrain' = s.terrain
  /\ boundaryMask' = s.boundaryMask
  /\ rngSeed' = s.rngSeed
  /\ noiseSeed' = s.noise.seed
  /\ gradients' = s.noise.gradients
  /\ faults' = s.faults
  /\ time' = s.time
  /\ lastRupture' = s.lastRupture

\* The object is the record s (in the initial state).
Becomes0(s) ==
  /\ bufs = s.bufs
  /\ uPrev = s.uPrev
  /\ uCurrent = s.uCurrent
  /\ uNext = s.uNext
  /\ velocity = s.velocity
  /\ terrain = s.terrain
  /\ boundaryMask = s.boundaryMask
  /\ rngSeed = s.rngSeed
  /\ noiseSeed = s.noise.seed
  /\ gradients = s.noise.gradients
  /\ faults = s.faults
  /\ time = s.time
  /\ lastRupture = s.lastRupture

Logged(op, args, s) ==
  hist' = Append(hist, [op |-> op, args |-> args,
                        faults |-> s.faults, rngSeed |-> s.rngSeed])

\* The arguments the calls are made with, in milli units.
\* step: <<waveSpeed, damping>>: (0, 0), the page's (2.0, 0.02), and a
\* negative wave speed (step checks none of its parameters).
StepArgs == {<<0, 0>>, <<2000, 20>>, <<-2000, 20>>}
\* disturb: <<x, y, magnitude>>: an interior centre; a fractional centre with
\* a magnitude whose radius 8.4 is not an integer; a centre one cell outside
\* the grid; a centre far outside the grid; magnitude zero.
DisturbArgs ==
  {<<3000, 3000, 5000>>, <<2500, 3500, 7000>>, <<-1000, 3000, 5000>>,
   <<-20000, 3000, 5000>>, <<3000, 3000, 0>>}
\* setFaultCount: <<count>>
FaultCountArgs == {<<0>>, <<3>>}

Init ==
  \E c \in {construct} :
    /\ Becomes0(c)
    /\ result = <<>>
    /\ hist = <<>>
    /\ NoRng /\ NoNoise /\ NoLoop /\ NoMap /\ NoAccess

\* sim.step({waveSpeed, damping}), as renderFrame calls it
Step ==
  /\ Len(hist) < MaxCalls
  /\ \E a \in StepArgs : \E s \in {sim} : \E r \in {step(s, a[1], a[2])} :
       /\ Becomes(r.sim)
       /\ result' = <<[peak |-> r.peak, energy |-> r.energy]>>
       /\ Logged("step", a, r.sim)
       /\ UNCHANGED <<rngVars, noiseVars, loopVars, mapVars, accessVars>>

\* sim.disturb(x, y, magnitude), as the click handlers call it
Disturb ==
  /\ Len(hist) < MaxCalls
  /\ \E a \in DisturbArgs : \E s \in {sim} : \E t \in {disturb(s, a[1], a[2], a[3])} :
       /\ Becomes(t)
       /\ Logged("disturb", a, t)
       /\ UNCHANGED <<result, rngVars, noiseVars, loopVars, mapVars, accessVars>>

\* sim.setFaultCount(count), as the fault slider's handler calls it
SetFaultCount ==
  /\ Len(hist) < MaxCalls
  /\ \E a \in FaultCountArgs : \E s \in {sim} : \E t \in {setFaultCount(s, a[1])} :
       /\ Becomes(t)
       /\ Logged("setFaultCount", a, t)
       /\ UNCHANGED <<result, rngVars, noiseVars, loopVars, mapVars, accessVars>>

\* sim.resetTerrain(), as the reset button's handler calls it
ResetTerrain ==
  /\ Len(hist) < MaxCalls
  /\ \E s \in {sim} : \E t \in {resetTerrain(s)} :
       /\ Becomes(t)
       /\ Logged("resetTerrain", <<>>, t)
       /\ UNCHANGED <<result, rngVars, noiseVars, loopVars, mapVars, accessVars>>

Next == Step \/ Disturb \/ SetFaultCount \/ ResetTerrain

Spec == Init /\ [][Next]_vars

\* -------------------------------------------------------- the RNG by itself
\* No WaveSimulation is constructed in the specifications of single classes.
NoSim ==
  /\ bufs = <<>> /\ uPrev = 0 /\ uCurrent = 0 /\ uNext = 0
  /\ velocity = <<>> /\ terrain = <<>> /\ boundaryMask = <<>>
  /\ rngSeed = 0 /\ noiseSeed = 0 /\ gradients = <<>> /\ faults = <<>>
  /\ time = 0 /\ lastRupture = <<>> /\ result = <<>> /\ hist = <<>>

\* Calls made on each of the two instances.
MaxDraws == 3

\* The seeds the instances are constructed with: the bounds of the valid
\* range, the default 1337, the two seeds of the simulation, and the seeds
\* whose successors are 1 and 2147483646 (the least and greatest states).
RngSeeds == {1, 1337, SimSeed, NoiseSeed, 1407677000, 739806647, 2147483646}

\* nextRange(min, max) as the program calls it (milli units), and the integer
\* min of a call nextRange(min, min + 1) far from zero.
Ranges == {<<200, 800>>, <<250, 750>>, <<600, 1300>>, <<0, PI>>, <<0, 2 * PI>>}
UnitRanges == {2 ^ 30}

\* new RNG(seed): the instance, with the calls made on it (for each call the
\* state it left and the value it returned: <<value>> in thousandths, or
\* <<whole, frac>> from nextRangeUnit).
newRNG(seed) == [start |-> seed, seed |-> seed, calls |-> <<>>]

called(rng, op, args, seed, value) ==
  [rng EXCEPT !.seed = seed,
              !.calls = Append(@, [op |-> op, args |-> args, before |-> rng.seed,
                                   seed |-> seed, value |-> value])]

RngInit ==
  /\ \E s \in RngSeeds : rngA = newRNG(s) /\ rngB = newRNG(s)
  /\ NoSim /\ NoNoise /\ NoLoop /\ NoMap /\ NoAccess

\* a.next()
NextA ==
  /\ Len(rngA.calls) < MaxDraws
  /\ \E n \in {next(rngA.seed)} :
       rngA' = called(rngA, "next", <<>>, n.seed, <<n.value>>)
  /\ UNCHANGED <<rngB, simVars, noiseVars, loopVars, mapVars, accessVars>>

\* b.next()
NextB ==
  /\ Len(rngB.calls) < MaxDraws
  /\ \E n \in {next(rngB.seed)} :
       rngB' = called(rngB, "next", <<>>, n.seed, <<n.value>>)
  /\ UNCHANGED <<rngA, simVars, noiseVars, loopVars, mapVars, accessVars>>

\* a.nextRange(min, max)
NextRangeA ==
  /\ Len(rngA.calls) < MaxDraws
  /\ \E r \in Ranges : \E n \in {nextRange(rngA.seed, r[1], r[2])} :
       rngA' = called(rngA, "nextRange", r, n.seed, <<n.value>>)
  /\ UNCHANGED <<rngB, simVars, noiseVars, loopVars, mapVars, accessVars>>

\* a.nextRange(min, min + 1), in binary64
NextRangeUnitA ==
  /\ Len(rngA.calls) < MaxDraws
  /\ \E min \in UnitRanges : \E n \in {nextRangeUnit(rngA.seed, min)} :
       rngA' = called(rngA, "nextRangeUnit", <<min, min + 1>>, n.seed,
                      <<n.whole, n.frac>>)
  /\ UNCHANGED <<rngB, simVars, noiseVars, loopVars, mapVars, accessVars>>

RngNext == NextA \/ NextB \/ NextRangeA \/ NextRangeUnitA

RngSpec == RngInit /\ [][RngNext]_vars

\* ---------------------------------------------- the SpectralNoise by itself
\* Queries made on the instance.
MaxQueries == 3

\* The lattice points gradient() is asked for and the points (milli units)
\* perlin() is asked for; the cells of the two points share the lattice
\* points (1, 0) and (1, 1).
Lattice == {<<0, 0>>, <<1, 0>>, <<1, 1>>}
Points == {<<300, 700>>, <<1500, 700>>}

\* new SpectralNoise(seed)
newSpectralNoise(seed) == [seed |-> seed, gradients |-> <<>>]

\* The instance after a query, and the query with the value it returned.
asked(op, args, r) ==
  /\ spectral' = r.noise
  /\ queries' = Append(queries, [op |-> op, args |-> args, value |-> r.value])

NoiseInit ==
  /\ spectral = newSpectralNoise(NoiseSeed)
  /\ queries = <<>>
  /\ NoSim /\ NoRng /\ NoLoop /\ NoMap /\ NoAccess

\* noise.gradient(ix, iy)
QueryGradient ==
  /\ Len(queries) < MaxQueries
  /\ \E k \in Lattice : \E r \in {gradient(spectral, k[1], k[2])} :
       asked("gradient", k, r)
  /\ UNCHANGED <<simVars, rngVars, loopVars, mapVars, accessVars>>

\* noise.perlin(x, y)
QueryPerlin ==
  /\ Len(queries) < MaxQueries
  /\ \E p \in Points : \E r \in {perlin(spectral, p[1], p[2])} :
       asked("perlin", p, [noise |-> r.noise, value |-> <<r.value>>])
  /\ UNCHANGED <<simVars, rngVars, loopVars, mapVars, accessVars>>

NoiseNext == QueryGradient \/ QueryPerlin

NoiseSpec == NoiseInit /\ [][NoiseNext]_vars

\* ---------------------------------------------------- the page's event loop
\* The host runs one task at a time, each to its end: the script itself, an
\* animation frame callback (renderFrame), or a listener of a UI event.
\* This specification follows the control flow only: which task runs and
\* where it stands (pc), where the call of sim.step stands (stepPc: "idle"
\* when no call is in progress, else "sweep", "rotate", "clock"), the number
\* of callbacks registered with requestAnimationFrame and not yet run, the
\* UI events that wait for their listener (each with the stepPc at which the
\* user caused it), and how often renderFrame was entered and step returned.
\* running is <<"none">>, <<"script">>, <<"renderFrame">>, or the event
\* <<type, stepPc at arrival>> whose listener runs.

\* Invocations of renderFrame, and UI events that can wait at one time.
MaxFrames == 3
MaxEvents == 2

\* The elements that have a listener calling a method of sim (lines 259-294).
EventTypes == {"canvasClick", "trigger", "aftershock", "reset", "faultInput"}

\* The method of sim each listener calls.
MethodOf(type) ==
  CASE type = "reset" -> "resetTerrain"
    [] type = "faultInput" -> "setFaultCount"
    [] OTHER -> "disturb"

\* requestAnimationFrame that registers the callback twice.
requestTwice(q) == q + 2

\* requestAnimationFrame(renderFrame): one more callback waits.
requestAnimationFrame(q) == q + 1

LoopInit ==
  /\ running = <<"script">> /\ pc = "setup" /\ stepPc = "idle"
  /\ rafQueue = 0 /\ eventQueue = <<>> /\ frames = 0 /\ steps = 0
  /\ NoSim /\ NoRng /\ NoNoise /\ NoMap /\ NoAccess

\* The task that runs is executing the body of renderFrame.
InRenderFrame == running \in {<<"script">>, <<"renderFrame">>}

\* Lines 1-369 of the script up to its last statement: sim is constructed,
\* the listeners are registered, and renderFrame() is called directly.
ScriptCallsRenderFrame ==
  /\ running = <<"script">> /\ pc = "setup"
  /\ pc' = "read"
  /\ frames' = frames + 1
  /\ UNCHANGED <<running, stepPc, rafQueue, eventQueue, steps>>
  /\ UNCHANGED <<simVars, rngVars, noiseVars, mapVars, accessVars>>

\* renderFrame, lines 297-302: the inputs are read and sim.step is entered.
FrameEntersStep ==
  /\ InRenderFrame /\ pc = "read"
  /\ pc' = "step"
  /\ stepPc' = "sweep"
  /\ UNCHANGED <<running, rafQueue, eventQueue, frames, steps>>
  /\ UNCHANGED <<simVars, rngVars, noiseVars, mapVars, accessVars>>

\* step, lines 197-221: the sweep over the interior.
StepSweep ==
  /\ InRenderFrame /\ pc = "step" /\ stepPc = "sweep"
  /\ stepPc' = "rotate"
  /\ UNCHANGED <<running, pc, rafQueue, eventQueue, frames, steps>>
  /\ UNCHANGED <<simVars, rngVars, noiseVars, mapVars, accessVars>>

\* step, lines 223-226: the rotation of the buffers.
StepRotate ==
  /\ InRenderFrame /\ pc = "step" /\ stepPc = "rotate"
  /\ stepPc' = "clock"
  /\ UNCHANGED <<running, pc, rafQueue, eventQueue, frames, steps>>
  /\ UNCHANGED <<simVars, rngVars, noiseVars, mapVars, accessVars>>

\* step, lines 228-233: time advances and step returns to renderFrame.
StepReturns ==
  /\ InRenderFrame /\ pc = "step" /\ stepPc = "clock"
  /\ stepPc' = "idle"
  /\ steps' = steps + 1
  /\ pc' = "paint"
  /\ UNCHANGED <<running, rafQueue, eventQueue, frames>>
  /\ UNCHANGED <<simVars, rngVars, noiseVars, mapVars, accessVars>>

\* renderFrame, lines 304-364: the canvas and the labels are painted.
FramePaints ==
  /\ InRenderFrame /\ pc = "paint"
  /\ pc' = "request"
  /\ UNCHANGED <<running, stepPc, rafQueue, eventQueue, frames, steps>>
  /\ UNCHANGED <<simVars, rngVars, noiseVars, mapVars, accessVars>>

\* renderFrame, line 366: the next callback is requested and the task ends.
FrameRequestsNext ==
  /\ InRenderFrame /\ pc = "request"
  /\ rafQueue' = requestAnimationFrame(rafQueue)
  /\ running' = <<"none">> /\ pc' = "none"
  /\ UNCHANGED <<stepPc, eventQueue, frames, steps>>
  /\ UNCHANGED <<simVars, rngVars, noiseVars, mapVars, accessVars>>

\* The host runs a registered animation frame callback when no task runs.
FrameCallback ==
  /\ running = <<"none">> /\ rafQueue > 0 /\ frames < MaxFrames
  /\ rafQueue' = rafQueue - 1
  /\ running' = <<"renderFrame">> /\ pc' = "read"
  /\ frames' = frames + 1
  /\ UNCHANGED <<stepPc, eventQueue, steps>>
  /\ UNCHANGED <<simVars, rngVars, noiseVars, mapVars, accessVars>>

\* The user clicks or moves the slider, at any moment once the listeners
\* are registered: the event waits for the host to dispatch it.
UserEvent ==
  /\ pc # "setup"
  /\ Len(eventQueue) < MaxEvents
  /\ \E type \in EventTypes : eventQueue' = Append(eventQueue, <<type, stepPc>>)
  /\ UNCHANGED <<running, pc, stepPc, rafQueue, frames, steps>>
  /\ UNCHANGED <<simVars, rngVars, noiseVars, mapVars, accessVars>>

\* The host dispatches the oldest waiting event when no task runs: its
\* listener (lines 259-294) starts.
ListenerStarts ==
  /\ running = <<"none">> /\ eventQueue # <<>>
  /\ running' = Head(eventQueue) /\ pc' = "call"
  /\ eventQueue' = Tail(eventQueue)
  /\ UNCHANGED <<stepPc, rafQueue, frames, steps>>
  /\ UNCHANGED <<simVars, rngVars, noiseVars, mapVars, accessVars>>

\* The listener calls its method of sim, the method returns, the task ends.
ListenerCallsSim ==
  /\ running[1] \in EventTypes /\ pc = "call"
  /\ running' = <<"none">> /\ pc' = "none"
  /\ UNCHANGED <<stepPc, rafQueue, eventQueue, frames, steps>>
  /\ UNCHANGED <<simVars, rngVars, noiseVars, mapVars, accessVars>>

LoopNext ==
  \/ ScriptCallsRenderFrame \/ FrameEntersStep \/ StepSweep \/ StepRotate
  \/ StepReturns \/ FramePaints \/ FrameRequestsNext \/ FrameCallback
  \/ UserEvent \/ ListenerStarts \/ ListenerCallsSim

LoopSpec == LoopInit /\ [][LoopNext]_vars

\* ------------------------------------------------- the BosWashMap component
\* src/src/BosWashMap.jsx: the effect that creates the map, the map's load
\* handler with its async loader of three Overpass datasets, the remove
\* handler and the effect's cleanup.  The host runs one task at a time (an
\* effect, a cleanup, a map event, the arrival of a network response); the
\* continuation of an await whose promise has settled runs before the next
\* task.

\* Times the component is mounted (React's StrictMode mounts, unmounts and
\* mounts again).
MaxMounts == 2

\* The datasets in the order the loader fetches them, and the layers it adds
\* for each.
Datasets == <<"i95", "amtrak", "airports">>
LayersOf(d) ==
  CASE d = "i95" -> {"i95-line"}
    [] d = "amtrak" -> {"amtrak-clusters", "amtrak-unclustered", "amtrak-labels"}
    [] d = "airports" -> {"airports-points", "airports-labels"}

\* What the network answers to a request, and what the body turns out to be.
Responses == {"ok", "http500", "networkError"}
Bodies == {"json", "invalid"}

\* A journal entry: by is the run of the loader that acted (0: the component
\* or a map handler), ac the controller the run closed over (for an abort:
\* the controller aborted).
entry(by, what, arg, ac) == [by |-> by, what |-> what, arg |-> arg, ac |-> ac]

\* A fetch whose signal is ignored: the request goes on after the abort.
abortIgnored(request) == request

\* fetch(endpoint, { ..., signal }) of overpass when the signal is aborted: a
\* request in flight ("pending": the response has not arrived; "body":
\* r.json() is reading it) is rejected with an AbortError.
abortRequest(request) ==
  IF request \in {"pending", "body"} THEN "rejected" ELSE request

\* controller.abort() for the controller ac (nothing for null or for one
\* that is aborted already): the controllers, loaders and journal afterwards.
abort(st, ac) ==
  IF ac = 0 \/ st.controllers[ac] THEN st
  ELSE [controllers |-> [st.controllers EXCEPT ![ac] = TRUE],
        loaders |-> [k \in DOMAIN st.loaders |->
                       IF st.loaders[k].ac = ac
                       THEN [st.loaders[k] EXCEPT !.request = abortRequest(@)]
                       ELSE st.loaders[k]],
        journal |-> Append(st.journal, entry(0, "abort", "", ac))]

\* overpass(query, ac.signal): the state of the request just made.
overpass(aborted) == IF aborted THEN abortRequest("pending") ELSE "pending"

\* The continuation of a settled await runs before any other task.
NoMicrotask == \A k \in DOMAIN loaders : loaders[k].request # "rejected"

MapInit ==
  /\ NoMap
  /\ NoSim /\ NoRng /\ NoNoise /\ NoLoop /\ NoAccess

\* The effect of lines 137-306 runs (the component mounts): the map is
\* created and its handlers are registered.
Mount ==
  /\ ~mounted /\ Len(maps) < MaxMounts /\ NoMicrotask
  /\ mounted' = TRUE
  /\ IF hasInit
     THEN UNCHANGED <<hasInit, mapRef, maps>>
     ELSE /\ hasInit' = TRUE
          /\ maps' = Append(maps, [loaded |-> FALSE, removed |-> FALSE,
                                   sources |-> {"darkmatter"}, layers |-> {"base"}])
          /\ mapRef' = Len(maps) + 1
  /\ UNCHANGED <<acRef, readyRef, controllers, loaders, journal>>
  /\ UNCHANGED <<simVars, rngVars, noiseVars, loopVars, accessVars>>

\* The map's load event, lines 178-229: the base layers are added and the
\* loader starts; it runs up to its first await.
MapLoads ==
  /\ NoMicrotask
  /\ \E m \in DOMAIN maps :
       /\ ~maps[m].loaded /\ ~maps[m].removed
       /\ \E st \in {abort([controllers |-> controllers, loaders |-> loaders,
                           journal |-> journal \o <<entry(0, "setReady", "true", 0)>>],
                          acRef)} :
          \E ac \in {Len(controllers) + 1} : \E run \in {Len(loaders) + 1} :
            /\ readyRef' = TRUE
            /\ maps' = [maps EXCEPT ![m] =
                          [@ EXCEPT !.loaded = TRUE,
                                    !.sources = @ \cup {"cities", "corridor"},
                                    !.layers = @ \cup {"city-points", "city-labels",
                                                       "corridor-line"}]]
            /\ controllers' = Append(st.controllers, FALSE)
            /\ acRef' = ac
            /\ journal' = Append(st.journal, entry(run, "setLoading", "true", ac))
            /\ loaders' = Append(st.loaders,
                                 [map |-> m, ac |-> ac, at |-> 1,
                                  request |-> overpass(FALSE)])
  /\ UNCHANGED <<mounted, hasInit, mapRef>>
  /\ UNCHANGED <<simVars, rngVars, noiseVars, loopVars, accessVars>>

\* catch (e) and finally of the loader, lines 283-291, for an error named
\* name with the message message: the journal afterwards.
caught(run, name, message) ==
  LET ac == loaders[run].ac
      j1 == IF name # "AbortError"
            THEN Append(journal, entry(run, "setError", message, ac))
            ELSE journal
  IN IF ~controllers[ac] THEN Append(j1, entry(run, "setLoading", "false", ac))
     ELSE j1

\* The loader has ended.
ended(run) == [loaders EXCEPT ![run].at = Len(Datasets) + 1, ![run].request = "none"]

\* The response to the request a run awaits arrives (or the request fails):
\* overpass, lines 38-40.  An ok response goes on to r.json(); otherwise
\* overpass throws and the loader's catch and finally run.
ResponseArrives ==
  /\ NoMicrotask
  /\ \E run \in DOMAIN loaders : \E r \in Responses :
       /\ loaders[run].request = "pending"
       /\ IF r = "ok"
          THEN /\ loaders' = [loaders EXCEPT ![run].request = "body"]
               /\ UNCHANGED journal
          ELSE /\ loaders' = ended(run)
               /\ journal' = caught(run, IF r = "http500" THEN "Error" ELSE "TypeError",
                                    IF r = "http500" THEN "Overpass error 500"
                                    ELSE "Failed to fetch")
  /\ UNCHANGED <<mounted, hasInit, mapRef, acRef, readyRef, maps, controllers>>
  /\ UNCHANGED <<simVars, rngVars, noiseVars, loopVars, accessVars>>

\* The body of the response has been read, lines 229-282 from one await to
\* the next: the dataset is added to the map under the guard of lines 231,
\* 246 and 270 and the next request is made; after the last dataset the
\* statistics are set (line 279) and the finally clause runs.  A body that
\* is not JSON makes r.json() throw.
BodyArrives ==
  /\ NoMicrotask
  /\ \E run \in DOMAIN loaders : \E b \in Bodies :
       LET ld == loaders[run]
           d == Datasets[ld.at]
           aborted == controllers[ld.ac]
           adds == ~aborted /\ mapRef # 0
           j1 == IF adds THEN Append(journal, entry(run, "add", d, ld.ac)) ELSE journal
           j2 == Append(j1, entry(run, "setStats", "", ld.ac))
       IN /\ ld.request = "body"
          /\ IF b = "invalid"
             THEN /\ loaders' = ended(run)
                  /\ journal' = caught(run, "SyntaxError", "Unexpected token")
                  /\ UNCHANGED maps
             ELSE /\ maps' = IF adds
                             THEN [maps EXCEPT ![ld.map].sources = @ \cup {d},
                                               ![ld.map].layers = @ \cup LayersOf(d)]
                             ELSE maps
                  /\ IF ld.at < Len(Datasets)
                     THEN /\ loaders' = [loaders EXCEPT ![run].at = ld.at + 1,
                                                        ![run].request = overpass(aborted)]
                          /\ journal' = j1
                     ELSE /\ loaders' = ended(run)
                          /\ journal' = IF ~aborted
                                        THEN Append(j2, entry(run, "setLoading", "false", ld.ac))
                                        ELSE j2
  /\ UNCHANGED <<mounted, hasInit, mapRef, acRef, readyRef, controllers>>
  /\ UNCHANGED <<simVars, rngVars, noiseVars, loopVars, accessVars>>

\* The await of an aborted request throws the AbortError into the loader:
\* catch and finally, lines 283-291.
AbortDelivered ==
  /\ \E run \in DOMAIN loaders :
       /\ loaders[run].request = "rejected"
       /\ loaders' = ended(run)
       /\ journal' = caught(run, "AbortError", "The operation was aborted")
  /\ UNCHANGED <<mounted, hasInit, mapRef, acRef, readyRef, maps, controllers>>
  /\ UNCHANGED <<simVars, rngVars, noiseVars, loopVars, accessVars>>

\* The cleanup of the effect, lines 298-305 (the component unmounts), with
\* the remove handler of line 296 that m.remove() fires.
Cleanup ==
  /\ mounted /\ NoMicrotask
  /\ \E st \in {abort([controllers |-> controllers, loaders |-> loaders,
                      journal |-> journal], acRef)} :
       /\ controllers' = st.controllers
       /\ loaders' = st.loaders
       /\ journal' = st.journal \o <<entry(0, "setReady", "false", 0),
                                     entry(0, "setReady", "false", 0)>>
  /\ maps' = IF mapRef # 0 THEN [maps EXCEPT ![mapRef].removed = TRUE] ELSE maps
  /\ readyRef' = FALSE
  /\ mapRef' = 0
  /\ hasInit' = FALSE
  /\ mounted' = FALSE
  /\ UNCHANGED acRef
  /\ UNCHANGED <<simVars, rngVars, noiseVars, loopVars, accessVars>>

MapNext ==
  \/ Mount \/ MapLoads \/ ResponseArrives \/ BodyArrives \/ AbortDelivered
  \/ Cleanup

MapSpec == MapInit /\ [][MapNext]_vars

\* ------------------------------------- array accesses on grids of any size
\* new WaveSimulation(width, height) for any size, and the indices at which
\* step and disturb read and write the arrays of size width * height.

\* The greatest width and height.
MaxSide == 5

\* The centres <<x, y>> (milli units) and the magnitudes disturb is called
\* with: centres inside, fractional, on the corner cells, one cell and far
\* outside the grid on either side; magnitudes zero, negative, with the
\* radius 8 and with the fractional radii 8.4 and 10.8, each of which
\* covers every grid from any centre near it.
Centres ==
  {<<3000, 3000>>, <<2500, 3500>>, <<0, 0>>, <<4999, 4999>>, <<-1000, 3000>>,
   <<3000, -1000>>, <<6500, 2000>>, <<-20000, 3000>>, <<100000, 100000>>}
Magnitudes == {0, -3000, 5000, 7000, 9000}

\* index(x, y) with the row length taken from the height.
indexByHeight(width, height, x, y) == y * height + x

\* WaveSimulation.index(x, y) on a grid of the given size.
indexOn(width, height, x, y) == y * width + x

\* The test of line 176 on a grid of the given size.
skippedOn(width, height, px, py) ==
  px <= 1 \/ py <= 1 \/ px >= width - 1 \/ py >= height - 1

\* The cells step's loops visit: for (y = 1; y < height - 1; y++)
\* for (x = 1; x < width - 1; x++).
sweptOn(width, height) ==
  {indexOn(width, height, x, y) : x \in 1 .. width - 2, y \in 1 .. height - 2}

\* step: the indices read (uCurrent at idx-1, idx+1, idx-width, idx+width and
\* idx; uPrev, terrain and boundaryMask at idx) and written (uNext and
\* velocity at idx).
stepAccess(width, height) ==
  [op |-> "step", args |-> <<>>,
   reads |-> UNION {{idx - 1, idx + 1, idx - width, idx + width, idx} :
                      idx \in sweptOn(width, height)},
   writes |-> sweptOn(width, height)]

\* disturb(x, y, magnitude): the indices of uCurrent read and written by the
\* += of line 184, reached for the offsets that pass the tests of lines 176
\* and 181.
disturbAccess(width, height, x, y, magnitude) ==
  LET radius == radiusOf(magnitude)
      hit == {indexOn(width, height, Floor(x + i), Floor(y + j)) :
                <<i, j>> \in {o \in Offsets(radius) \X Offsets(radius) :
                                /\ ~skippedOn(width, height, Floor(x + o[1]), Floor(y + o[2]))
                                /\ o[1] * o[1] + o[2] * o[2] <= radius * radius}}
  IN [op |-> "disturb", args |-> <<x, y, magnitude>>, reads |-> hit, writes |-> hit]

AccessInit ==
  /\ \E width, height \in 0 .. MaxSide : grid = <<width, height>>
  /\ access = <<>>
  /\ NoSim /\ NoRng /\ NoNoise /\ NoLoop /\ NoMap

\* sim.step(...)
StepAccesses ==
  /\ access' = stepAccess(grid[1], grid[2])
  /\ UNCHANGED grid
  /\ UNCHANGED <<simVars, rngVars, noiseVars, loopVars, mapVars>>

\* sim.disturb(x, y, magnitude)
DisturbAccesses ==
  /\ \E c \in Centres : \E magnitude \in Magnitudes :
       access' = disturbAccess(grid[1], grid[2], c[1], c[2], magnitude)
  /\ UNCHANGED grid
  /\ UNCHANGED <<simVars, rngVars, noiseVars, loopVars, mapVars>>

AccessNext == StepAccesses \/ DisturbAccesses

AccessSpec == AccessInit /\ [][AccessNext]_vars

\* ------------------------------------------------------------------ claims
\* The transition is a call of method op (with arguments args).
Called(op) == Len(hist') = Len(hist) + 1 /\ hist'[Len(hist')].op = op
CalledWith(op, args) == Called(op) /\ hist'[Len(hist')].args = args

\* The most recent call, and whether the call before it was op.
last == hist[Len(hist)]
LastWas(op) == Len(hist) >= 1 /\ last.op = op

\* The cells of the four edges, and the cells step sweeps.
IsBorder(c) ==
  \/ c % GRID_WIDTH = 0
  \/ c % GRID_WIDTH = GRID_WIDTH - 1
  \/ c \div GRID_WIDTH = 0
  \/ c \div GRID_WIDTH = GRID_HEIGHT - 1
Border == {c \in Cells : IsBorder(c)}
Interior == Cells \ Border

\* C1: step exchanges the three buffer references and copies nothing: the
\* buffer that was uCurrent is uPrev afterwards, the one that was uNext is
\* uCurrent, the one that was uPrev is uNext, and the contents of the two
\* buffers step does not compute (the old uPrev and uCurrent) are untouched.
C1_StepRotatesBuffers ==
  [][Called("step") =>
       /\ uPrev' = uCurrent
       /\ uCurrent' = uNext
       /\ uNext' = uPrev
       /\ bufs'[uCurrent] = bufs[uCurrent]
       /\ bufs'[uPrev] = bufs[uPrev]]_vars

\* A step has run on a disturbed field: the references are rotated once and
\* the two newest fields differ.
C1_Witness ==
  /\ LastWas("step")
  /\ uPrev = 2 /\ uCurrent = 3 /\ uNext = 1
  /\ bufs[uCurrent] # bufs[uPrev]
  /\ bufs[uPrev] # Zeros

\* C2: the three displacement grids always have exactly width*height cells,
\* and step writes no cell of row 0, row height-1, column 0 or column
\* width-1 of any grid.
C2_GridInvariant ==
  /\ [](\A b \in {uPrev, uCurrent, uNext} :
          DOMAIN bufs[b] = Cells /\ Cardinality(DOMAIN bufs[b]) = GRID_WIDTH * GRID_HEIGHT)
  /\ [][Called("step") =>
          \A c \in Border :
            /\ \A b \in 1 .. 3 : bufs'[b][c] = bufs[b][c]
            /\ velocity'[c] = velocity[c]
            /\ terrain'[c] = terrain[c]
            /\ boundaryMask'[c] = boundaryMask[c]]_vars

\* A step with a nonzero wave speed has run on a disturbed field and has
\* written the cells next to the border.
C2_Witness ==
  /\ LastWas("step")
  /\ last.args = <<2000, 20>>
  /\ bufs[uCurrent][index(1, 2)] # 0
  /\ \A c \in Border : bufs[uCurrent][c] = 0

\* C3 as claimed: a step with waveSpeed = 0 and damping = 0 leaves the
\* contents of uCurrent as they were before the step.
C3_ZeroStepKeepsCurrent ==
  [][CalledWith("step", <<0, 0>>) => bufs'[uCurrent'] = bufs[uCurrent]]_vars

\* C3 as amended: a step with waveSpeed = 0 and damping = 0 sets every swept
\* cell of the new uCurrent to 2*uCurrent - uPrev of the state before the
\* step and leaves the border cells as they were, so uCurrent keeps its
\* contents exactly when uCurrent and uPrev agreed on the swept cells.
C3_ZeroStepLeapfrog ==
  [][CalledWith("step", <<0, 0>>) =>
       /\ \A c \in Interior :
            bufs'[uCurrent'][c] = 2 * bufs[uCurrent][c] - bufs[uPrev][c]
       /\ \A c \in Border : bufs'[uCurrent'][c] = bufs[uCurrent][c]
       /\ (bufs'[uCurrent'] = bufs[uCurrent]) <=>
            (\A c \in Interior : bufs[uCurrent][c] = bufs[uPrev][c])]_vars

\* A zero-speed, zero-damping step has run right after a disturb on the
\* freshly constructed grid: the disturbed cell has doubled.
C3_Witness ==
  /\ Len(hist) = 2
  /\ hist[1].op = "disturb" /\ hist[1].args = <<3000, 3000, 5000>>
  /\ hist[2].op = "step" /\ hist[2].args = <<0, 0>>
  /\ bufs[uPrev][index(3, 3)] > 0
  /\ bufs[uCurrent][index(3, 3)] = 2 * bufs[uPrev][index(3, 3)]

\* C4: resetTerrain restores the state: after it terrain and boundaryMask
\* are the arrays the constructor produced, every cell of the three
\* displacement buffers and of velocity is 0, time is 0 and lastRupture is
\* null; a resetTerrain that directly follows a resetTerrain changes no
\* field of the object.
C4_ResetRestores ==
  [][Called("resetTerrain") =>
       /\ terrain' = construct.terrain
       /\ boundaryMask' = construct.boundaryMask
       /\ \A b \in 1 .. 3 : bufs'[b] = Zeros
       /\ velocity' = Zeros
       /\ time' = 0
       /\ lastRupture' = <<>>
       /\ (LastWas("resetTerrain") => UNCHANGED fields)]_vars

\* resetTerrain has run twice in a row after a step on a disturbed field.
C4_Witness ==
  /\ Len(hist) >= 3
  /\ hist[Len(hist) - 2].op = "step"
  /\ hist[Len(hist) - 1].op = "resetTerrain"
  /\ last.op = "resetTerrain"
  /\ uCurrent # 2
  /\ time = 0
  /\ terrain = construct.terrain

\* The calls made since the grids were last zeroed (by the constructor or by
\* the most recent resetTerrain).
lastReset ==
  LET R == {i \in 1 .. Len(hist) : hist[i].op = "resetTerrain"}
  IN IF R = {} THEN 0 ELSE CHOOSE i \in R : \A k \in R : k <= i
sinceReset == SubSeq(hist, lastReset + 1, Len(hist))

\* h ends with the calls op1, op2 and holds only setFaultCount calls before.
EndsWith(h, op1, op2) ==
  /\ Len(h) >= 2
  /\ h[Len(h) - 1].op = op1
  /\ h[Len(h)].op = op2
  /\ \A k \in 1 .. Len(h) - 2 : h[k].op = "setFaultCount"

\* The object with zeroed displacement buffers (and its current fault list).
zeroed == [sim EXCEPT !.bufs = [b \in 1 .. 3 |-> Zeros]]

\* The uCurrent field after the call disturb(a) on the object s.
FieldAfter(s, a) == disturb(s, a[1], a[2], a[3]).bufs[s.uCurrent]

\* C5: on a zeroed grid and a fixed fault list, the uCurrent field after two
\* disturb calls is the cell-wise sum of the fields each call produces alone
\* on a zeroed grid, and is the field the calls produce in the other order.
C5_DisturbSuperposes ==
  EndsWith(sinceReset, "disturb", "disturb") /\ hist[Len(hist) - 1].faults = faults =>
    LET a == hist[Len(hist) - 1].args
        b == hist[Len(hist)].args
        fa == FieldAfter(zeroed, a)
        fb == FieldAfter(zeroed, b)
    IN /\ bufs[uCurrent] = [c \in Cells |-> fa[c] + fb[c]]
       /\ bufs[uCurrent] = FieldAfter([zeroed EXCEPT !.bufs[uCurrent] = fb], a)

\* Two different overlapping disturbs have run on the freshly constructed
\* grid: the centre cell holds more than either injects alone.
C5_Witness ==
  /\ Len(hist) = 2
  /\ hist[1].op = "disturb" /\ hist[1].args = <<3000, 3000, 5000>>
  /\ hist[2].op = "disturb" /\ hist[2].args = <<2500, 3500, 7000>>
  /\ bufs[uCurrent][index(3, 3)] > FieldAfter(zeroed, hist[1].args)[index(3, 3)]
  /\ bufs[uCurrent][index(3, 3)] > FieldAfter(zeroed, hist[2].args)[index(3, 3)]

\* The centre (a[1], a[2]) lies in a cell that step sweeps.
InteriorCentre(a) ==
  /\ Floor(a[1]) \in 1 .. GRID_WIDTH - 2
  /\ Floor(a[2]) \in 1 .. GRID_HEIGHT - 2

\* C6: on a freshly reset simulation, a disturb at an interior centre with a
\* positive magnitude followed by one step(waveSpeed = 2.0, damping = 0.02)
\* returns peak > 0 and energy > 0, leaves lastRupture = 0 and time = DT.
C6_DisturbThenStep ==
  /\ EndsWith(sinceReset, "disturb", "step")
  /\ InteriorCentre(hist[Len(hist) - 1].args)
  /\ hist[Len(hist) - 1].args[3] > 0
  /\ last.args = <<2000, 20>>
  => /\ Len(result) = 1
     /\ result[1].peak > 0
     /\ result[1].energy > 0
     /\ lastRupture = <<0>>
     /\ time = DT

\* The scenario has run on the freshly constructed grid.
C6_Witness ==
  /\ Len(hist) = 2
  /\ hist[1].op = "disturb" /\ hist[1].args = <<3000, 3000, 5000>>
  /\ hist[2].op = "step" /\ hist[2].args = <<2000, 20>>
  /\ result[1].peak > 5000
  /\ time = DT

\* Every candidate cell of disturb(a) fails the test of line 176.
AllSkipped(a) ==
  LET radius == radiusOf(a[3])
      offsets == {k * Scale - radius : k \in 0 .. (2 * radius) \div Scale}
  IN \A i \in offsets, j \in offsets : skipped(Floor(a[1] + i), Floor(a[2] + j))

\* C7: every disturb call sets lastRupture to the current time; a call all
\* of whose candidate cells are skipped (a centre far outside the grid) or
\* whose magnitude is zero changes no cell of any grid.
C7_DisturbNoErrorPath ==
  [][Called("disturb") =>
       LET a == hist'[Len(hist')].args
       IN /\ lastRupture' = <<time>>
          /\ (AllSkipped(a) \/ a[3] = 0) =>
               UNCHANGED <<bufs, uPrev, uCurrent, uNext, velocity, terrain,
                           boundaryMask>>]_vars

\* A disturb far outside the grid has run after one step, at time DT.
C7_Witness ==
  /\ Len(hist) >= 2
  /\ hist[Len(hist) - 1].op = "step"
  /\ last.op = "disturb"
  /\ last.args[1] < -radiusOf(last.args[3])
  /\ AllSkipped(last.args)
  /\ lastRupture = <<DT>>

\* C8 as claimed: the value of time never decreases.
C8_TimeNeverDecreases == [][time' >= time]_vars

\* C8 as amended: step advances time by exactly DT, disturb and
\* setFaultCount leave it unchanged, and resetTerrain sets it back to 0: time
\* never decreases except by a resetTerrain.
C8_TimeAdvancesOnlyByStep ==
  [][/\ Called("step") => time' = time + DT
     /\ Called("disturb") \/ Called("setFaultCount") => time' = time
     /\ Called("resetTerrain") => time' = 0
     /\ ~Called("resetTerrain") => time' >= time]_vars

\* A step after a resetTerrain after a step: time is DT again.
C8_Witness ==
  /\ Len(hist) = 3
  /\ hist[1].op = "step"
  /\ hist[2].op = "resetTerrain"
  /\ hist[3].op = "step"
  /\ time = DT

\* The fault list and the state of the shared RNG before the i-th call.
faultsBefore(i) == IF i = 1 THEN construct.faults ELSE hist[i - 1].faults
rngBefore(i) == IF i = 1 THEN construct.rngSeed ELSE hist[i - 1].rngSeed

\* C9: after setFaultCount(0) and setFaultCount(3) on a simulation with three
\* faults, the three faults are the ones sampled from the shared RNG as the
\* sequence found it, the RNG has moved on from that state and from its
\* state after construction, and the layout differs from the earlier one.
C9_FaultsRegenerated ==
  \A i \in 1 .. Len(hist) - 1 :
    /\ hist[i].op = "setFaultCount" /\ hist[i].args = <<0>>
    /\ hist[i + 1].op = "setFaultCount" /\ hist[i + 1].args = <<3>>
    /\ Len(faultsBefore(i)) = 3
    => /\ hist[i].faults = <<>>
       /\ Len(hist[i + 1].faults) = 3
       /\ hist[i + 1].faults = setFaults(rngBefore(i), <<>>, 3).faults
       /\ hist[i + 1].rngSeed # rngBefore(i)
       /\ hist[i + 1].rngSeed # construct.rngSeed
       /\ hist[i + 1].faults # faultsBefore(i)
       /\ hist[i + 1].faults # construct.faults

\* The fault count of the constructed simulation has gone 3, 0, 3.
C9_Witness ==
  /\ Len(hist) = 2
  /\ hist[1].op = "setFaultCount" /\ hist[1].args = <<0>>
  /\ hist[2].op = "setFaultCount" /\ hist[2].args = <<3>>
  /\ Len(faults) = 3
  /\ faults # construct.faults

\* C10: setFaultCount changes nothing but the fault list and the shared RNG.
C10_SetFaultCountFrame ==
  [][Called("setFaultCount") =>
       UNCHANGED <<bufs, uPrev, uCurrent, uNext, velocity, terrain, boundaryMask,
                   time, lastRupture, gradients, noiseSeed>>]_vars

\* setFaultCount(3) has run after a disturb and a step: the faults are new,
\* the field, the clock and the rupture timestamp are those of the step.
C10_Witness ==
  /\ Len(hist) = 3
  /\ hist[1].op = "disturb"
  /\ hist[2].op = "step"
  /\ hist[3].op = "setFaultCount" /\ hist[3].args = <<3>>
  /\ faults # hist[2].faults
  /\ lastRupture = <<0>>
  /\ time = DT
  /\ bufs[uCurrent] # Zeros


\* The points energyBoost is evaluated at (milli units): every cell of the
\* grid, a fractional point, and points far outside the grid.
ProbePoints ==
  {<<(c % GRID_WIDTH) * Scale, (c \div GRID_WIDTH) * Scale>> : c \in Cells} \cup
  {<<2500, 3500>>, <<-50000, -50000>>, <<1000000, -1000000>>}

\* C14: energyBoost(x, y) is never negative, whatever fault list setFaults
\* has produced, and is 0 at every point when there are no faults.
C14_EnergyBoostNonNegative ==
  \A p \in ProbePoints :
    /\ energyBoost(faults, p[1], p[2]) >= 0
    /\ Len(faults) = 0 => energyBoost(faults, p[1], p[2]) = 0

\* The fault count has gone 3, 0, 3: the boost was 0 everywhere in between
\* and is positive at the middle of the grid now.
C14_Witness ==
  /\ Len(hist) = 2
  /\ hist[1].op = "setFaultCount" /\ hist[1].faults = <<>>
  /\ hist[2].op = "setFaultCount" /\ Len(faults) = 3
  /\ faults # construct.faults
  /\ energyBoost(faults, 3000, 3000) > 0


\* The cells that pass disturb's test of line 176, the cells step's loops
\* visit, and the image of a set of cells under the two reflections of the
\* grid.
DisturbRegion == {c \in Cells : ~skipped(c % GRID_WIDTH, c \div GRID_WIDTH)}
SweepRegion == {index(x, y) : x \in 1 .. xEnd - 1, y \in 1 .. yEnd - 1}
Mirrored(S) ==
  {index(GRID_WIDTH - 1 - (c % GRID_WIDTH), GRID_HEIGHT - 1 - (c \div GRID_WIDTH)) : c \in S}

Ring ==
  {c \in Cells : \/ c % GRID_WIDTH <= 1 \/ c % GRID_WIDTH >= GRID_WIDTH - 2
                 \/ c \div GRID_WIDTH <= 1 \/ c \div GRID_WIDTH >= GRID_HEIGHT - 2}

\* The value step({waveSpeed: a[1], damping: a[2]}) computes for cell c from
\* the current state.
NextValueAt(c, a) ==
  nextValue(Scale - a[2], bufs[uCurrent][c], bufs[uPrev][c],
            accelerationOf(MulS(a[1], a[1]), laplacianAt(bufs[uCurrent], c),
                           Scale + MulS(terrain[c], 600)),
            Max(boundaryMask[c], 200))

\* C16 as claimed: across any step, every cell with x <= 1, y <= 1,
\* x >= width-2 or y >= height-2 keeps the value it had in the field.
C16_StepKeepsRing ==
  [][Called("step") => \A c \in Ring : bufs'[uCurrent'][c] = bufs[uCurrent][c]]_vars

\* C16 as amended: step writes no cell of the outermost border (x or y equal
\* to 0 or dim-1), but it updates the ring next to the border (x or y equal
\* to 1 or dim-2) by the same formula as every other cell of its loops.
C16_StepUpdatesRing ==
  [][Called("step") =>
       LET a == hist'[Len(hist')].args
       IN /\ \A c \in Ring \cap SweepRegion : bufs'[uCurrent'][c] = NextValueAt(c, a)
          /\ \A c \in Cells \ SweepRegion : bufs'[uCurrent'][c] = bufs[uNext][c]
          /\ Ring \ SweepRegion = Border]_vars

\* A step with the page's wave speed has run after a disturb on the
\* constructed grid: cell (1, 3) of the ring, which disturb cannot write, is
\* no longer 0, and cell (width-2, 3) of the ring has changed.
C16_Witness ==
  /\ Len(hist) = 2
  /\ hist[1].op = "disturb" /\ hist[1].args = <<3000, 3000, 5000>>
  /\ hist[2].op = "step" /\ hist[2].args = <<2000, 20>>
  /\ bufs[uPrev][index(1, 3)] = 0
  /\ bufs[uCurrent][index(1, 3)] # 0
  /\ bufs[uCurrent][index(GRID_WIDTH - 2, 3)] # bufs[uPrev][index(GRID_WIDTH - 2, 3)]


\* C17 as claimed: after resetTerrain the boundary mask is 0 at every cell
\* of the four edges and every value lies in [0, 1].
C17_MaskZeroOnAllEdges ==
  LastWas("resetTerrain") =>
    /\ \A c \in Border : boundaryMask[c] = 0
    /\ \A c \in Cells : boundaryMask[c] \in 0 .. Scale

\* C17 as amended: after resetTerrain (and after construction) every mask
\* value lies in [0, 1]; the mask is 0 exactly at the cells of column 0 and
\* row 0; on the right and bottom edges it is positive, since there
\* 1 - nx = 1/width and 1 - ny = 1/height: away from row 0 the last column
\* holds pow(min(ny, 1/width, 1 - ny), 0.3).
C17_MaskZeroOnLowEdges ==
  LastWas("resetTerrain") \/ Len(hist) = 0 =>
    /\ \A c \in Cells :
         /\ boundaryMask[c] \in 0 .. Scale
         /\ (boundaryMask[c] = 0) <=> (c % GRID_WIDTH = 0 \/ c \div GRID_WIDTH = 0)
    /\ \A y \in 1 .. GRID_HEIGHT - 1 :
         LET ny == (y * Scale) \div GRID_HEIGHT
             last1 == Scale - ((GRID_WIDTH - 1) * Scale) \div GRID_WIDTH
         IN /\ boundaryMask[index(GRID_WIDTH - 1, y)] = Pow03(Min(Min(ny, last1), Scale - ny))
            /\ boundaryMask[index(GRID_WIDTH - 1, y)] > 0
    /\ \A x \in 1 .. GRID_WIDTH - 1 : boundaryMask[index(x, GRID_HEIGHT - 1)] > 0

\* resetTerrain has run after a step: the mask is 0 at the left edge and
\* positive at the right edge and in the bottom right corner.
C17_Witness ==
  /\ Len(hist) >= 2
  /\ hist[Len(hist) - 1].op = "step"
  /\ last.op = "resetTerrain"
  /\ boundaryMask[index(0, 3)] = 0
  /\ boundaryMask[index(GRID_WIDTH - 1, 3)] > 0
  /\ boundaryMask[index(GRID_WIDTH - 1, GRID_HEIGHT - 1)] > 0


\* C18: disturb adds to uCurrent and writes nothing else: every cell of the
\* new uCurrent is its old value plus the energy the call injects there (the
\* field the call produces on a zeroed grid), and uPrev, uNext, velocity,
\* terrain, boundaryMask, time, the fault list and the states of both RNGs
\* (with the gradient cache) are unchanged.
C18_DisturbFrame ==
  [][Called("disturb") =>
       \A injected \in {FieldAfter(zeroed, hist'[Len(hist')].args)} :
          /\ bufs'[uCurrent] = [c \in Cells |-> bufs[uCurrent][c] + injected[c]]
          /\ bufs'[uPrev] = bufs[uPrev]
          /\ bufs'[uNext] = bufs[uNext]
          /\ UNCHANGED <<uPrev, uCurrent, uNext, velocity, terrain, boundaryMask,
                         time, faults, rngSeed, noiseSeed, gradients>>]_vars

\* A disturb has run on a field that a disturb and a step had left nonzero:
\* the centre cell holds more than the call injects, uPrev and the velocity
\* are those of the step.
C18_Witness ==
  /\ Len(hist) = 3
  /\ hist[1].op = "disturb" /\ hist[1].args = <<3000, 3000, 5000>>
  /\ hist[2].op = "step" /\ hist[2].args = <<2000, 20>>
  /\ hist[3].op = "disturb" /\ hist[3].args = <<2500, 3500, 7000>>
  /\ FieldAfter(zeroed, hist[3].args)[index(3, 3)] > 0
  /\ bufs[uCurrent][index(3, 3)] > FieldAfter(zeroed, hist[3].args)[index(3, 3)]
  /\ bufs[uPrev] # Zeros
  /\ velocity # Zeros
  /\ time = DT


\* The acceleration step computes for cell c from the current state, for a
\* given wave speed.
AccelerationAt(c, waveSpeed) ==
  accelerationOf(MulS(waveSpeed, waveSpeed), laplacianAt(bufs[uCurrent], c),
                 Scale + MulS(terrain[c], 600))

\* C19 as claimed: the acceleration that step(waveSpeed = -2.0) computes for
\* a cell is the negation of the one step(waveSpeed = 2.0) computes from the
\* same state.
C19_NegativeSpeedNegates ==
  [][CalledWith("step", <<-2000, 20>>) =>
       \A c \in SweepRegion : AccelerationAt(c, -2000) = -AccelerationAt(c, 2000)]_vars

\* C19 as amended: step accepts a negative waveSpeed like any other value,
\* and since only waveSpeed * waveSpeed enters the computation,
\* step(waveSpeed = -2.0) computes the same accelerations, leaves the same
\* object and returns the same peak and energy as step(waveSpeed = 2.0) from
\* the same state.
C19_NegativeSpeedSameStep ==
  [][CalledWith("step", <<-2000, 20>>) =>
       /\ \A c \in SweepRegion : AccelerationAt(c, -2000) = AccelerationAt(c, 2000)
       /\ \A s \in {sim} : \A r \in {step(s, 2000, 20)} :
            /\ sim' = r.sim
            /\ result' = <<[peak |-> r.peak, energy |-> r.energy]>>]_vars

\* step with waveSpeed = -2.0 has run after a disturb on the constructed
\* grid: the accelerations were not zero (cell (1, 3), which only the
\* acceleration can move, has moved).
C19_Witness ==
  /\ Len(hist) = 2
  /\ hist[1].op = "disturb" /\ hist[1].args = <<3000, 3000, 5000>>
  /\ hist[2].op = "step" /\ hist[2].args = <<-2000, 20>>
  /\ bufs[uPrev][index(1, 3)] = 0
  /\ bufs[uCurrent][index(1, 3)] # 0
  /\ result[1].peak > 0


\* C21: terrain and boundaryMask are static between resets: no step and no
\* disturb changes a cell of either, so after any sequence of step and
\* disturb calls they hold what the most recent resetTerrain (or the
\* constructor's) wrote.
C21_TerrainStatic ==
  [][Called("step") \/ Called("disturb") =>
       /\ terrain' = terrain
       /\ boundaryMask' = boundaryMask]_vars

\* A disturb and a step have run after a resetTerrain: the field moves over
\* the terrain and the mask the reset wrote.
C21_Witness ==
  /\ Len(hist) = 3
  /\ hist[1].op = "resetTerrain"
  /\ hist[2].op = "disturb" /\ hist[2].args = <<3000, 3000, 5000>>
  /\ hist[3].op = "step" /\ hist[3].args = <<2000, 20>>
  /\ bufs[uCurrent] # Zeros
  /\ terrain # Zeros /\ boundaryMask # Zeros
  /\ terrain = construct.terrain
  /\ boundaryMask = construct.boundaryMask


\* The sum of 0.5 * nextValue^2 over the cells of S, and the greatest
\* |nextValue| over them (0 for no cell), for the values step(a) computes
\* from the current state.
RECURSIVE EnergyOver(_, _)
EnergyOver(S, a) ==
  IF S = {} THEN 0
  ELSE LET c == CHOOSE e \in S : TRUE
       IN Let(NextValueAt(c, a), LAMBDA nv :
            MulS(nv, nv) \div 2 + EnergyOver(S \ {c}, a))
PeakOver(S, a) ==
  LET V == {Abs(NextValueAt(c, a)) : c \in S} \cup {0}
  IN CHOOSE v \in V : \A o \in V : o <= v

\* C23: step is a Jacobi sweep: every interior cell of the new uCurrent holds
\* (1 - damping) * (2 * uCurrent - uPrev) + waveSpeed^2 * DT^2 * laplacian *
\* (1 + 0.6 * terrain) * max(boundaryMask, 0.2), computed from the uCurrent
\* and uPrev of the state before the step alone (so the order of the sweep
\* does not matter), and the returned peak and energy are the greatest
\* |nextValue| and 1e-3 times the sum of 0.5 * nextValue^2 over exactly the
\* interior cells.
C23_StepIsJacobi ==
  [][Called("step") =>
       \A a \in {hist'[Len(hist')].args} :
         /\ \A c \in Interior : bufs'[uCurrent'][c] = NextValueAt(c, a)
         /\ Interior = SweepRegion
         /\ result'[1].peak = PeakOver(Interior, a)
         /\ result'[1].energy = EnergyOver(Interior, a)]_vars

\* A second step has run on a field in motion (uPrev and uCurrent both
\* nonzero and different before it): cell (1, 3) has moved again and the
\* returned peak is the magnitude of some cell of the new field.
C23_Witness ==
  /\ Len(hist) = 3
  /\ hist[1].op = "disturb" /\ hist[1].args = <<3000, 3000, 5000>>
  /\ hist[2].op = "step" /\ hist[2].args = <<2000, 20>>
  /\ hist[3].op = "step" /\ hist[3].args = <<2000, 20>>
  /\ bufs[uNext] # Zeros /\ bufs[uPrev] # bufs[uNext]
  /\ bufs[uPrev][index(1, 3)] # 0
  /\ bufs[uCurrent][index(1, 3)] # bufs[uPrev][index(1, 3)]
  /\ result[1].energy > 0
  /\ \E c \in Interior : Abs(bufs[uCurrent][c]) = result[1].peak


\* What the call disturb(a) has added to the cell of its centre, and the
\* full amount magnitude * (1 + energyBoost) for that cell.
CentreCell(a) == index(Floor(a[1]), Floor(a[2]))
CentreGain(a) == bufs'[uCurrent][CentreCell(a)] - bufs[uCurrent][CentreCell(a)]
CentreFull(a) ==
  MulS(a[3], Scale + energyBoost(faults, Floor(a[1]) * Scale, Floor(a[2]) * Scale))

\* No two values of a loop variable give the same cell coordinate.
OncePerCell(a) ==
  \A r \in {Max(8 * Scale, MulS(a[3], 1200))} :
    \A i, k \in Offsets(r) :
      i # k => Floor(a[1] + i) # Floor(a[1] + k) /\ Floor(a[2] + i) # Floor(a[2] + k)

\* C24 as claimed: for every magnitude disturb iterates over integer offsets
\* within radius max(8, magnitude * 1.2): the offset (0, 0) is visited, so
\* the centre cell (floor(x), floor(y)), when it is eligible, receives
\* exactly magnitude * (1 + energyBoost), and every cell is incremented at
\* most once per call.
C24_CentreGetsFull ==
  [][Called("disturb") =>
       \A a \in {hist'[Len(hist')].args} :
         /\ 0 \in Offsets(Max(8 * Scale, MulS(a[3], 1200)))
         /\ ~skipped(Floor(a[1]), Floor(a[2])) => CentreGain(a) = CentreFull(a)
         /\ OncePerCell(a)]_vars

\* C24 as amended: the offsets are -radius, -radius + 1, ..., so they are
\* integers and include (0, 0) exactly when radius = max(8, magnitude * 1.2)
\* is an integer (always for magnitude <= 6.66, where the radius is 8); then
\* the eligible centre cell receives exactly magnitude * (1 + energyBoost).
\* For any other radius (magnitude 7: radius 8.4, offsets -8.4, ..., -0.4,
\* 0.6, ...) no offset is (0, 0) and the centre cell receives less than that
\* for a positive magnitude.  In both cases every cell is incremented at
\* most once per call.
C24_OffsetsStartAtMinusRadius ==
  [][Called("disturb") =>
       \A a \in {hist'[Len(hist')].args} :
         \A r \in {Max(8 * Scale, MulS(a[3], 1200))} :
           /\ (0 \in Offsets(r)) <=> (r % Scale = 0)
           /\ a[3] <= 6666 => r = 8 * Scale
           /\ ~skipped(Floor(a[1]), Floor(a[2])) =>
                /\ r % Scale = 0 => CentreGain(a) = CentreFull(a)
                /\ r % Scale # 0 /\ a[3] > 0 =>
                     CentreGain(a) > 0 /\ CentreGain(a) < CentreFull(a)
           /\ OncePerCell(a)]_vars

\* disturb(2.5, 3.5, 7), whose radius is 8.4, has run on the constructed
\* grid: the centre cell (2, 3) holds less than magnitude * (1 + boost).
C24_Witness ==
  /\ Len(hist) = 1
  /\ last.op = "disturb" /\ last.args = <<2500, 3500, 7000>>
  /\ radiusOf(last.args[3]) = 8400
  /\ ~skipped(2, 3)
  /\ bufs[uCurrent][index(2, 3)] > 0
  /\ bufs[uCurrent][index(2, 3)] <
       MulS(7000, Scale + energyBoost(faults, 2000, 3000))

\* ---- claims about the RNG (specification RngSpec)
\* The calls made on the two instances.
RngCalls == {rngA.calls[k] : k \in 1 .. Len(rngA.calls)} \cup
            {rngB.calls[k] : k \in 1 .. Len(rngB.calls)}

\* C11: two RNG instances constructed with the same seed have the same state
\* after the same number of calls and return the same value from next();
\* every call sets the state to seed * 16807 mod 2147483647 and next()
\* returns (seed - 1) / 2147483646 of the new state (in thousandths: the
\* value is within one thousandth below the quotient); from seed 1337 the
\* first state is 1337 * 16807 mod 2147483647 and the first value 0.010.
C11_RngDeterministic ==
  /\ \A k \in 1 .. Min(Len(rngA.calls), Len(rngB.calls)) :
       /\ rngA.calls[k].seed = rngB.calls[k].seed
       /\ rngA.calls[k].op = rngB.calls[k].op =>
            rngA.calls[k].value = rngB.calls[k].value
  /\ Len(rngA.calls) = Len(rngB.calls) => rngA.seed = rngB.seed
  /\ \A c \in RngCalls :
       /\ c.seed = modulo(product(c.before))
       /\ c.op = "next" =>
            /\ c.value[1] = (c.seed - 1) \div 2147484
            /\ (c.seed - 1) \div 2147483 - c.value[1] \in {0, 1}
  /\ \A r \in {rngA, rngB} :
       r.start = 1337 /\ Len(r.calls) >= 1 =>
         /\ r.calls[1].seed = (1337 * 16807) % 2147483647
         /\ r.calls[1].op = "next" => r.calls[1].value = <<10>>

\* Both instances were built with seed 1337 and have made all their calls,
\* one of them through nextRange as well.
C11_Witness ==
  /\ rngA.start = 1337
  /\ Len(rngA.calls) = MaxDraws /\ Len(rngB.calls) = MaxDraws
  /\ rngA.calls[1].op = "next" /\ rngA.calls[2].op = "nextRange"
  /\ rngA.seed = rngB.seed
  /\ rngA.seed # 1337

\* The exact product <<hi, lo>> is below 2^53.
Below2To53(p) == p[1] \div 2 ^ 16 < 2 ^ 21

\* C12 as claimed: the state stays in [1, 2147483646], next() returns a value
\* in [0, 1), every nextRange(min, max) with min < max returns a value in
\* [min, max), and the product seed * 16807 stays below 2^53.
C12_RangesHalfOpen ==
  \A c \in RngCalls :
    /\ c.seed \in 1 .. Modulus - 1
    /\ Below2To53(product(c.before))
    /\ c.op = "next" => c.value[1] \in 0 .. Scale - 1
    /\ c.op \in {"nextRange", "nextRangeUnit"} =>
         c.args[1] <= c.value[1] /\ c.value[1] < c.args[2]

\* C12 as amended: the state stays in [1, 2147483646] and is the exact
\* remainder of a product below 2^53; next() returns a value in [0, 1); the
\* ranges the program draws from give values in [min, max); but
\* nextRange(2^30, 2^30 + 1) returns a value in the closed [min, max]: it
\* returns max itself exactly in the 255 greatest states (the sum rounds up).
C12_RangesInBinary64 ==
  \A c \in RngCalls :
    /\ c.seed \in 1 .. Modulus - 1
    /\ Below2To53(product(c.before))
    /\ c.seed = modulo(product(c.before))
    /\ c.op = "next" => c.value[1] \in 0 .. Scale - 1 /\ c.seed - 1 < Modulus - 1
    /\ c.op = "nextRange" => c.args[1] <= c.value[1] /\ c.value[1] < c.args[2]
    /\ c.op = "nextRangeUnit" =>
         /\ c.value[1] \in {c.args[1], c.args[2]}
         /\ c.value[2] \in 0 .. 2 ^ 22 - 1
         /\ (c.value = <<c.args[2], 0>>) <=> (c.seed >= Modulus - 255)
         /\ c.value[1] = c.args[2] => c.value[2] = 0

\* From seed 739806647 the first state is 2147483646, the greatest, and
\* nextRange(2^30, 2^30 + 1) has returned 2^30 + 1.
C12_Witness ==
  /\ rngA.start = 739806647
  /\ Len(rngA.calls) >= 1
  /\ rngA.calls[1].op = "nextRangeUnit"
  /\ rngA.calls[1].seed = Modulus - 1
  /\ rngA.calls[1].value = <<rngA.calls[1].args[2], 0>>

\* ---- claims about SpectralNoise (specification NoiseSpec)
\* The state of an RNG n calls after the state seed (the first half of the
\* calls, then the rest, so that the evaluation stays shallow for large n).
RECURSIVE advanced(_, _)
advanced(seed, n) ==
  IF n = 0 THEN seed
  ELSE IF n = 1 THEN Lehmer(seed)
  ELSE Let(advanced(seed, n \div 2), LAMBDA s : advanced(s, n - n \div 2))

\* C13: a gradient, once generated, is never generated again: every key of
\* the cache keeps its vector, the noise RNG has been drawn from exactly once
\* per key, a query for a cached lattice point changes nothing, and two
\* queries with the same arguments (gradient or perlin) return the same
\* value whatever was queried in between.
C13_GradientMemoized ==
  /\ [](/\ spectral.seed = advanced(NoiseSeed, Cardinality(DOMAIN spectral.gradients))
        /\ \A i, j \in 1 .. Len(queries) :
             queries[i].op = queries[j].op /\ queries[i].args = queries[j].args =>
               queries[i].value = queries[j].value)
  /\ [][/\ \A k \in DOMAIN spectral.gradients :
            /\ k \in DOMAIN spectral'.gradients
            /\ spectral'.gradients[k] = spectral.gradients[k]
        /\ \A q \in {queries'[Len(queries')]} :
            q.op = "gradient" =>
              /\ q.value = spectral'.gradients[q.args]
              /\ q.args \in DOMAIN spectral.gradients => spectral' = spectral
       ]_vars

\* perlin was evaluated at one point, then at the other, then at the first
\* again: six gradients are cached and the first and third values agree.
C13_Witness ==
  /\ Len(queries) = 3
  /\ queries[1].op = "perlin" /\ queries[2].op = "perlin" /\ queries[3].op = "perlin"
  /\ queries[1].args = queries[3].args /\ queries[1].args # queries[2].args
  /\ queries[1].value = queries[3].value
  /\ Cardinality(DOMAIN spectral.gradients) = 6

\* ---- claims about the event loop (specification LoopSpec)
\* C20: at most one renderFrame callback waits at any time; every invocation
\* of renderFrame makes exactly one call of step (the counts differ by one
\* only while an invocation has not yet got its step back); a call of step
\* starts only when none is in progress; and while a listener runs, that is
\* while its disturb, resetTerrain or setFaultCount executes, no call of
\* step is in progress: the step of every invocation entered so far has
\* returned, whenever the user caused the event.
C20_StepsNeverInterleave ==
  /\ [](/\ rafQueue <= 1
        /\ steps <= frames /\ frames <= steps + 1
        /\ running = <<"none">> => stepPc = "idle" /\ steps = frames
        /\ running[1] \in EventTypes =>
             /\ MethodOf(running[1]) \in {"disturb", "resetTerrain", "setFaultCount"}
             /\ stepPc = "idle"
             /\ steps = frames
        /\ rafQueue = 1 => ~InRenderFrame)
  /\ [][/\ stepPc' = "sweep" /\ stepPc # "sweep" => stepPc = "idle" /\ frames = steps + 1
        /\ frames' # frames => frames' = frames + 1 /\ steps = frames
        /\ steps' # steps => steps' = steps + 1 /\ steps' = frames']_vars

\* The listener of an event that the user caused while step was rotating
\* the buffers is running, after the second step has returned and with the
\* third invocation of renderFrame waiting.
C20_Witness ==
  /\ running[1] \in {"trigger", "reset"}
  /\ running[2] = "rotate"
  /\ pc = "call"
  /\ stepPc = "idle"
  /\ frames = 2 /\ steps = 2
  /\ rafQueue = 1


\* ---- claims about the BosWashMap component (specification MapSpec)
\* C22: once the AbortController of a run of the loader has been aborted (by
\* the effect's cleanup or by the map's remove handler), that run adds no
\* further source or layer to its map and makes no further React state
\* update (setStats, setError, setLoading), wherever among the three
\* requests the abort falls.
C22_AbortStopsLoader ==
  /\ [](\A i \in 1 .. Len(journal) : \A j \in i + 1 .. Len(journal) :
          journal[i].what = "abort" =>
            ~(journal[j].by # 0 /\ journal[j].ac = journal[i].ac))
  /\ [][\A run \in DOMAIN loaders :
          controllers[loaders[run].ac] =>
            /\ maps'[loaders[run].map].sources = maps[loaders[run].map].sources
            /\ maps'[loaders[run].map].layers = maps[loaders[run].map].layers
            /\ \A k \in Len(journal) + 1 .. Len(journal') : journal'[k].by # run]_vars

\* The component was unmounted while the first run awaited the body of the
\* Amtrak response, after it had added I-95: the run has ended, its map
\* holds I-95 and no Amtrak layer, and loading was never set to false by it;
\* the component was mounted again and the second run has loaded all three
\* datasets into the second map.
C22_Witness ==
  /\ Len(loaders) = 2
  /\ controllers = <<TRUE, FALSE>>
  /\ loaders[1].request = "none" /\ loaders[2].request = "none"
  /\ maps[1].removed
  /\ "i95" \in maps[1].sources /\ "amtrak" \notin maps[1].sources
  /\ "airports-labels" \in maps[2].layers
  /\ \E i \in 1 .. Len(journal) : journal[i] = entry(1, "add", "i95", 1)
  /\ \A i \in 1 .. Len(journal) :
       journal[i].by = 1 => journal[i].what \in {"add"} \/ journal[i].arg = "true"
  /\ journal[Len(journal)] = entry(2, "setLoading", "false", 2)


\* ---- further claims about the simulation (specification Spec)
\* The value nextRange(min, max) returns on the n-th draw after the state
\* seed.
DrawAt(seed, n, min, max) == min + MulS(max - min, unit(advanced(seed, n)))

\* The state of the shared RNG after construction, and before the i-th call.
rngAfterConstruction == advanced(SimSeed, 4 * InitialFaultCount)
rngAt(i) == IF i = 1 THEN rngAfterConstruction ELSE hist[i - 1].rngSeed

\* C25: setFaults(count) replaces the whole fault list with exactly count
\* new faults and advances the shared RNG by exactly 4 * count draws, taken
\* in the order cx, cy, angle, strength for each fault, with cx in
\* [0.2, 0.8) * width, cy in [0.2, 0.8) * height, angle in [0, pi) and
\* strength in [0.6, 1.3); no fault of the list before is in the list after,
\* and a call with the count the list already has regenerates it all the
\* same.  The constructor's list is setFaults(3) from the seed 9001.
C25_SetFaultsResamples ==
  /\ Len(hist) = 0 => rngSeed = rngAfterConstruction /\ Len(faults) = InitialFaultCount
  /\ \A i \in 1 .. Len(hist) :
       hist[i].op = "setFaultCount" =>
         \A count \in {hist[i].args[1]} : \A before \in {rngAt(i)} :
           /\ Len(hist[i].faults) = count
           /\ hist[i].rngSeed = advanced(before, 4 * count)
           /\ count > 0 => hist[i].rngSeed # before
           /\ \A k \in 1 .. count :
                \A f \in {hist[i].faults[k]} :
                  /\ f.cx = DrawAt(before, 4 * k - 3, 200, 800) * GRID_WIDTH
                  /\ f.cy = DrawAt(before, 4 * k - 2, 200, 800) * GRID_HEIGHT
                  /\ f.angle = DrawAt(before, 4 * k - 1, 0, PI)
                  /\ f.strength = DrawAt(before, 4 * k, 600, 1300)
                  /\ 200 * GRID_WIDTH <= f.cx /\ f.cx < 800 * GRID_WIDTH
                  /\ 200 * GRID_HEIGHT <= f.cy /\ f.cy < 800 * GRID_HEIGHT
                  /\ 0 <= f.angle /\ f.angle < PI
                  /\ 600 <= f.strength /\ f.strength < 1300
                  /\ \A l \in 1 .. Len(faultsBefore(i)) : f # faultsBefore(i)[l]
           /\ count > 0 => hist[i].faults # faultsBefore(i)

\* setFaultCount(3) has run on the constructed simulation, which had three
\* faults: the list is new and the RNG is 24 draws from its seed.
C25_Witness ==
  /\ Len(hist) = 1
  /\ last.op = "setFaultCount" /\ last.args = <<3>>
  /\ Len(construct.faults) = 3
  /\ Len(faults) = 3
  /\ \A k \in 1 .. 3 : faults[k] # construct.faults[k]
  /\ rngSeed = advanced(SimSeed, 24)
  /\ rngSeed # construct.rngSeed


\* C26: the three handles uPrev, uCurrent and uNext always refer to three
\* different buffers, a permutation of the three the constructor allocated,
\* so the buffer step writes (uNext) is never one of the two it reads.
C26_HandlesDistinct ==
  /\ {uPrev, uCurrent, uNext} = 1 .. 3
  /\ DOMAIN bufs = 1 .. 3
  /\ uPrev # uCurrent /\ uCurrent # uNext /\ uPrev # uNext
  /\ uNext \notin {uCurrent, uPrev}

\* Two steps have run on a disturbed field: every handle has moved twice
\* and the three buffers hold three different fields.
C26_Witness ==
  /\ Len(hist) = 3
  /\ hist[1].op = "disturb" /\ hist[1].args = <<3000, 3000, 5000>>
  /\ hist[2].op = "step" /\ hist[3].op = "step"
  /\ hist[2].args = <<2000, 20>> /\ hist[3].args = <<0, 0>>
  /\ <<uPrev, uCurrent, uNext>> = <<3, 1, 2>>
  /\ bufs[1] # bufs[2] /\ bufs[2] # bufs[3] /\ bufs[1] # bufs[3]


\* C27: in every state reachable from construction by step, disturb,
\* setFaultCount and resetTerrain, every border cell (row 0, row height-1,
\* column 0, column width-1) of uPrev, uCurrent, uNext and velocity is 0:
\* whichever buffer a rotation makes uCurrent, its border holds no stale
\* value.
C27_BorderStaysZero ==
  \A c \in Border :
    /\ bufs[uPrev][c] = 0
    /\ bufs[uCurrent][c] = 0
    /\ bufs[uNext][c] = 0
    /\ velocity[c] = 0

\* A step, a disturb centred one cell outside the grid and another step
\* have run: the cells next to the left border move, and the border is 0 in
\* all four grids.
C27_Witness ==
  /\ Len(hist) = 3
  /\ hist[1].op = "step"
  /\ hist[2].op = "disturb" /\ hist[2].args = <<-1000, 3000, 5000>>
  /\ hist[3].op = "step" /\ hist[3].args = <<2000, 20>>
  /\ bufs[uNext] = Zeros /\ bufs[uPrev] # Zeros
  /\ bufs[uCurrent][index(1, 3)] # 0
  /\ velocity[index(1, 3)] # 0
  /\ \A c \in Border : bufs[uCurrent][c] = 0 /\ velocity[c] = 0


\* C28: lastRupture is either null or a value <= time, and it is null
\* exactly when no disturb has been called since construction or the most
\* recent resetTerrain; so the time since the last rupture that renderFrame
\* displays, time - lastRupture, is never negative.
C28_RuptureNotAfterNow ==
  /\ lastRupture = <<>> \/ Len(lastRupture) = 1
  /\ lastRupture # <<>> => lastRupture[1] <= time /\ time - lastRupture[1] >= 0
  /\ (lastRupture = <<>>) <=>
       (\A i \in 1 .. Len(sinceReset) : sinceReset[i].op # "disturb")

\* A disturb has run between two steps: the rupture is one DT old.
C28_Witness ==
  /\ Len(hist) = 3
  /\ hist[1].op = "step" /\ hist[2].op = "disturb" /\ hist[3].op = "step"
  /\ lastRupture = <<DT>>
  /\ time = 2 * DT
  /\ time - lastRupture[1] = DT


\* The state of the noise RNG after as many draws as the gradient cache has
\* entries when the constructor returns.
noiseAfterConstruction ==
  advanced(NoiseSeed, Cardinality(DOMAIN construct.noise.gradients))

\* C29: the noise RNG and the shared (fault) RNG are independent, and the
\* noise RNG advances only on cache misses: the draws taken from the noise
\* RNG are as many as the entries of the gradient cache; a resetTerrain,
\* whose gradient queries after construction all hit the cache, draws
\* nothing from it, and neither does setFaultCount nor any other call (the
\* noise RNG and the cache stay as the constructor left them); and
\* resetTerrain neither advances the shared RNG nor changes the fault list.
C29_NoiseAndFaultRngIndependent ==
  /\ gradients = construct.noise.gradients
  /\ noiseSeed = construct.noise.seed
  /\ noiseSeed = noiseAfterConstruction
  /\ noiseSeed # NoiseSeed
  /\ \A i \in 1 .. Len(hist) :
       /\ hist[i].op = "resetTerrain" =>
            hist[i].rngSeed = rngAt(i) /\ hist[i].faults = faultsBefore(i)
       /\ hist[i].op = "setFaultCount" /\ hist[i].args[1] > 0 =>
            hist[i].rngSeed # rngAt(i)

\* A resetTerrain has run after a setFaultCount(3) had advanced the shared
\* RNG: the shared RNG and the faults are those the setFaultCount left, and
\* the noise RNG is where the constructor left it.
C29_Witness ==
  /\ Len(hist) = 2
  /\ hist[1].op = "setFaultCount" /\ hist[1].args = <<3>>
  /\ hist[2].op = "resetTerrain"
  /\ rngSeed = advanced(SimSeed, 24)
  /\ faults = hist[1].faults /\ faults # construct.faults
  /\ Cardinality(DOMAIN gradients) > 4
  /\ noiseSeed = construct.noise.seed


\* ---- claims about the array accesses (specification AccessSpec)
\* C30: every index step reads or writes (idx, idx-1, idx+1, idx-width,
\* idx+width) and every index disturb reads or writes lies in
\* [0, width*height - 1], for every grid size, every centre (outside the
\* grid and fractional ones too) and every magnitude; on a grid with
\* width < 3 or height < 3 step touches no cell at all.
C30_IndicesInRange ==
  access # <<>> =>
    /\ access.reads \cup access.writes \subseteq 0 .. grid[1] * grid[2] - 1
    /\ access.op = "step" /\ (grid[1] < 3 \/ grid[2] < 3) =>
         access.reads = {} /\ access.writes = {}
    /\ access.op = "step" /\ grid[1] >= 3 /\ grid[2] >= 3 => access.writes # {}

\* disturb(-1, 3, 5), centred one cell left of the grid, has run on a grid
\* of 5 x 4: it has written the two cells (2, 2) and (3, 2), the only ones
\* that pass the test of line 176.
C30_Witness ==
  /\ grid = <<5, 4>>
  /\ access # <<>>
  /\ access.op = "disturb" /\ access.args = <<-1000, 3000, 5000>>
  /\ access.writes = {12, 13}


=============================================================================
